---- MODULE Spec2Model ----
(***************************************************************************)
(* Semeru: region heap, block offset table, suspendible thread set.        *)
(*                                                                         *)
(* Part 1: SuspendibleThreadSet (src/unnamed/part_000:161-283).            *)
(*   Every access to _nthreads, _nthreads_stopped and _suspend_all is made *)
(*   under STS_lock, so each critical section between two points where the *)
(*   lock is released (return, or Monitor::wait) is one atomic action.     *)
(*   Monitor::wait releases the lock and blocks until notify_all; a woken  *)
(*   thread must re-acquire the lock before it re-tests its loop condition.*)
(*                                                                         *)
(* Part 2: one heap region (SemeruHeapRegion) with its block offset table  *)
(*   part.  Addresses are word addresses, the heap's reserved            *)
(*   range starts at word 0 and the region modelled is region 1, so that   *)
(*   bottom > 0 and the region's first card is not card 0.                 *)
(***************************************************************************)
EXTENDS Integers, Naturals, Sequences, FiniteSets, TLC

\* ------------------------------------------------------------------------
\* Bounds
\* ------------------------------------------------------------------------
NumWorkers == 3     \* threads using the suspendible thread set
LogN_words == 3     \* log2 of the words per card (6 in a 64-bit build)
G1HeapRegionSize == 8192  \* the region size asked for, in bytes (-XX:G1HeapRegionSize)
MaxOps == 3         \* region operations per run
NumAllocators == 2  \* threads allocating concurrently in the region
ParSlack == 7       \* words free in the region when the allocators start

Workers == 1..NumWorkers
Allocators == 1..NumAllocators

VARIABLES
  sts_nthreads,      \* SuspendibleThreadSet::_nthreads
  sts_stopped,       \* SuspendibleThreadSet::_nthreads_stopped
  sts_suspend_all,   \* SuspendibleThreadSet::_suspend_all
  sts_sem,           \* count of the semaphore _synchronize_wakeup
  sts_pc,            \* position of each worker thread
  vm_pc,             \* position of the VM thread (the requester)
  sts_signals,       \* history: signal() calls since the current request began
  sts_waited,        \* history: the current request reached _synchronize_wakeup->wait()
  top,               \* _sync_mem_cpu->_top, the allocation pointer
  bot,               \* the region's slice of _offset_array, card index -> u_char
  bot_threshold,     \* _bot_part._next_offset_threshold
  bot_index,         \* _bot_part._next_offset_index
  objs,              \* the blocks laid out in [bottom, top): [start, size, rec]
  bot_pre_ok,        \* history: every alloc_block_work call met its asserted precondition
  last,              \* history: the last region operation, its arguments and result
  nops,              \* history: number of region operations so far
  par_alloc_lock,    \* _par_alloc_lock: 0 when free, else the owning thread
  th,                \* per allocating thread: position and locals
  assert_build,      \* the build defines ASSERT: assert(...) is compiled in
  hr_aborted,        \* the process ended in a fatal error (assert or guarantee)
  hr,                \* per heap region: the fields of HeapRegion used below
  hr_event,          \* the last region-type-change trace event, with a count
  hr_last,           \* history: the last heap-region operation and its arguments
  hr_pre_ok,         \* history: every asserted precondition held when called
  hr_left,           \* heap-region operations the behaviour may still take
  rdma_log,          \* the transport operations issued, in order
  rdma_last,         \* history: the last synchronisation function called
  c_mem,             \* the heap words of the regions being compacted
  c_bitmap,          \* the mark bitmap: the addresses marked live
  c_queue,           \* the cross-region reference queue
  c_reg,             \* per region being compacted: its fields and phase
  c_run,             \* the compaction run: workers, serial queue, history
  g1ar,              \* G1AllocRegion: the current alloc region and the regions' tops
  sts_time           \* the clock, _suspend_all_start and ConcGCYieldTimeout

stsVars == <<sts_nthreads, sts_stopped, sts_suspend_all, sts_sem, sts_pc, vm_pc,
             sts_signals, sts_waited>>
botVars == <<bot, bot_threshold, bot_index, bot_pre_ok>>
regVars == <<top, botVars, objs, last, nops>>
thrVars == <<par_alloc_lock, th>>
hrVars == <<hr, hr_event, hr_last, hr_pre_ok, hr_left>>
rdmaVars == <<rdma_log, rdma_last>>
cmpVars == <<c_mem, c_bitmap, c_queue, c_reg, c_run>>
arVars == <<g1ar, sts_time>>
extVars == <<assert_build, hr_aborted, hrVars, rdmaVars, cmpVars, arVars>>
extVarsButHr == <<assert_build, hr_aborted, hr_event, hr_last, hr_pre_ok, hr_left,
                   rdmaVars, cmpVars, arVars>>
extVarsButHrClear == <<assert_build, hr_last, hr_left, rdmaVars, cmpVars, arVars>>

vars == <<stsVars, regVars, thrVars, extVars>>

\* Worker positions:
\*   "out"         not joined
\*   "join_wait"   inside join(), blocked in ml.wait()            (line 183)
\*   "join_woken"  inside join(), notified, lock not yet re-acquired
\*   "in"          joined, running between yield points
\*   "yield_wait"  inside yield(), blocked in ml.wait()           (line 217)
\*   "yield_woken" inside yield(), notified, lock not yet re-acquired
WorkerPcs == {"out", "join_wait", "join_woken", "in", "yield_wait", "yield_woken"}
\* VM thread positions:
\*   "idle"       no request
\*   "sync_call"  synchronize() entered, STS_lock not yet taken   (lines 239-242)
\*   "sem_wait"   blocked in _synchronize_wakeup->wait()          (line 267)
\*   "synced"     synchronize() has returned, desynchronize() not yet called
VmPcs == {"idle", "sync_call", "sem_wait", "synced"}

InSet(t) == sts_pc[t] \in {"in", "yield_wait", "yield_woken"}
InYield(t) == sts_pc[t] \in {"yield_wait", "yield_woken"}

\* is_synchronized(), on explicit counter values
is_synchronized_off_by_one(stopped, nthreads) == stopped + 1 >= nthreads
is_synchronized(stopped, nthreads) == stopped = nthreads

\* leave(): "if (_suspend_all && is_synchronized())", evaluated after _nthreads--
leave_completes_always(suspend, stopped, nthreads) == suspend
leave_completes(suspend, stopped, nthreads) ==
  suspend /\ is_synchronized(stopped, nthreads)

\* yield(): "if (is_synchronized())" evaluated after _nthreads_stopped++
yield_completes_never(stopped, nthreads) == FALSE
yield_completes(stopped, nthreads) == is_synchronized(stopped, nthreads)

\* ml.notify_all(): every thread blocked in wait() on STS_lock is made runnable
notify_all_lost(pcs) == pcs
notify_all(pcs) ==
  [t \in DOMAIN pcs |->
     IF pcs[t] = "join_wait" THEN "join_woken"
     ELSE IF pcs[t] = "yield_wait" THEN "yield_woken"
     ELSE pcs[t]]

STSInit ==
  /\ sts_nthreads = 0
  /\ sts_stopped = 0
  /\ sts_suspend_all = FALSE
  /\ sts_sem = 0
  /\ sts_pc = [t \in Workers |-> "out"]
  /\ vm_pc = "idle"
  /\ sts_signals = 0
  /\ sts_waited = FALSE

\* join(): the body of the while loop and the increment, from a given entry point
JoinBody_no_wait(t) ==
  /\ sts_pc' = [sts_pc EXCEPT ![t] = "in"]
  /\ sts_nthreads' = sts_nthreads + 1
JoinBody(t) ==
  IF sts_suspend_all
    THEN /\ sts_pc' = [sts_pc EXCEPT ![t] = "join_wait"]
         /\ UNCHANGED sts_nthreads
    ELSE /\ sts_pc' = [sts_pc EXCEPT ![t] = "in"]
         /\ sts_nthreads' = sts_nthreads + 1

Join(t) ==
  /\ sts_pc[t] = "out"
  /\ JoinBody(t)
  /\ UNCHANGED <<sts_stopped, sts_suspend_all, sts_sem, vm_pc, sts_signals, sts_waited,
               regVars, thrVars, extVars>>

JoinResume(t) ==
  /\ sts_pc[t] = "join_woken"
  /\ JoinBody(t)
  /\ UNCHANGED <<sts_stopped, sts_suspend_all, sts_sem, vm_pc, sts_signals, sts_waited,
               regVars, thrVars, extVars>>

Leave(t) ==
  /\ sts_pc[t] = "in"
  /\ sts_nthreads' = sts_nthreads - 1
  /\ sts_pc' = [sts_pc EXCEPT ![t] = "out"]
  /\ IF leave_completes(sts_suspend_all, sts_stopped, sts_nthreads - 1)
       THEN /\ sts_sem' = sts_sem + 1
            /\ sts_signals' = sts_signals + 1
       ELSE UNCHANGED <<sts_sem, sts_signals>>
  /\ UNCHANGED <<sts_stopped, sts_suspend_all, vm_pc, sts_waited,
               regVars, thrVars, extVars>>

\* yield() up to its first wait(); with no request pending it returns at once
Yield(t) ==
  /\ sts_pc[t] = "in"
  /\ IF sts_suspend_all
       THEN /\ sts_stopped' = sts_stopped + 1
            /\ IF yield_completes(sts_stopped + 1, sts_nthreads)
                 THEN /\ sts_sem' = sts_sem + 1
                      /\ sts_signals' = sts_signals + 1
                 ELSE UNCHANGED <<sts_sem, sts_signals>>
            /\ sts_pc' = [sts_pc EXCEPT ![t] = "yield_wait"]
       ELSE UNCHANGED <<sts_stopped, sts_sem, sts_signals, sts_pc>>
  /\ UNCHANGED <<sts_nthreads, sts_suspend_all, vm_pc, sts_waited,
               regVars, thrVars, extVars>>

\* yield(): a notified thread re-acquires STS_lock and re-tests _suspend_all
YieldResume_no_retest(t) ==
  /\ sts_pc[t] = "yield_woken"
  /\ sts_pc' = [sts_pc EXCEPT ![t] = "in"]
  /\ sts_stopped' = sts_stopped - 1
  /\ UNCHANGED <<sts_nthreads, sts_suspend_all, sts_sem, vm_pc, sts_signals, sts_waited,
               regVars, thrVars, extVars>>
YieldResume(t) ==
  /\ sts_pc[t] = "yield_woken"
  /\ IF sts_suspend_all
       THEN /\ sts_pc' = [sts_pc EXCEPT ![t] = "yield_wait"]
            /\ UNCHANGED sts_stopped
       ELSE /\ sts_pc' = [sts_pc EXCEPT ![t] = "in"]
            /\ sts_stopped' = sts_stopped - 1
  /\ UNCHANGED <<sts_nthreads, sts_suspend_all, sts_sem, vm_pc, sts_signals, sts_waited,
               regVars, thrVars, extVars>>

\* synchronize(): entry, before STS_lock is taken
SynchronizeCall ==
  /\ vm_pc = "idle"
  /\ vm_pc' = "sync_call"
  /\ sts_signals' = 0
  /\ sts_waited' = FALSE
  /\ UNCHANGED <<sts_nthreads, sts_stopped, sts_suspend_all, sts_sem, sts_pc,
               regVars, thrVars, extVars>>

\* synchronize(): the locked block
SynchronizeLocked ==
  /\ vm_pc = "sync_call"
  /\ sts_suspend_all' = TRUE
  /\ IF is_synchronized(sts_stopped, sts_nthreads)
       THEN /\ vm_pc' = "synced"
            /\ UNCHANGED sts_waited
       ELSE /\ vm_pc' = "sem_wait"
            /\ sts_waited' = TRUE
  /\ UNCHANGED <<sts_nthreads, sts_stopped, sts_sem, sts_pc, sts_signals,
               regVars, thrVars, extVars>>

\* synchronize(): _synchronize_wakeup->wait() returns
SynchronizeWakeup ==
  /\ vm_pc = "sem_wait"
  /\ sts_sem > 0
  /\ sts_sem' = sts_sem - 1
  /\ vm_pc' = "synced"
  /\ UNCHANGED <<sts_nthreads, sts_stopped, sts_suspend_all, sts_pc, sts_signals, sts_waited,
               regVars, thrVars, extVars>>

Desynchronize ==
  /\ vm_pc = "synced"
  /\ sts_suspend_all' = FALSE
  /\ sts_pc' = notify_all(sts_pc)
  /\ vm_pc' = "idle"
  /\ UNCHANGED <<sts_nthreads, sts_stopped, sts_sem, sts_signals, sts_waited,
               regVars, thrVars, extVars>>

STSNext ==
  \/ \E t \in Workers : Join(t)
  \/ \E t \in Workers : JoinResume(t)
  \/ \E t \in Workers : Leave(t)
  \/ \E t \in Workers : Yield(t)
  \/ \E t \in Workers : YieldResume(t)
  \/ SynchronizeCall
  \/ SynchronizeLocked
  \/ SynchronizeWakeup
  \/ Desynchronize

\* ========================================================================
\* Part 2: region geometry and the block offset table
\* ========================================================================
NULLW == -1                       \* the NULL pointer
hrm_index == 1                    \* the region modelled
N_words == 2^LogN_words           \* BOTConstants::N_words, words per card
LogBase == 3                      \* BOTConstants::LogBase
N_powers == 14                    \* BOTConstants::N_powers
LogHeapWordSize == 3              \* log2 of the bytes per heap word
HeapWordSize == 2^LogHeapWordSize \* bytes per heap word
\* the lower bound of the region size, HeapRegionBounds::min_size(): the
\* model's regions are smaller than any the collector would accept
MinRegionSize == 0

\* log2_long(x): the position of the highest bit set
RECURSIVE log2_long(_)
log2_long(x) == IF x <= 1 THEN 0 ELSE 1 + log2_long(x \div 2)

\* HeapRegion::setup_heap_region_size with G1HeapRegionSize set: the size is
\* rounded down to a power of two and kept at or above the lower bound; sane
\* is the condition of the last guarantee
setup_heap_region_size(region_size, min_size) ==
  LET rounded == 2^log2_long(region_size)
      bounded == IF rounded < min_size THEN min_size ELSE rounded
      region_size_log == log2_long(bounded)
  IN [LogOfHRGrainBytes |-> region_size_log,
      LogOfHRGrainWords |-> region_size_log - LogHeapWordSize,
      GrainBytes |-> bounded,
      GrainWords |-> bounded \div HeapWordSize,
      sane |-> 2^(region_size_log - LogHeapWordSize) = bounded \div HeapWordSize]
GrainBytes == setup_heap_region_size(G1HeapRegionSize, MinRegionSize).GrainBytes
GrainWords == setup_heap_region_size(G1HeapRegionSize, MinRegionSize).GrainWords
reserved_start == 0               \* _bot->_reserved.start()
bottom == reserved_start + hrm_index * GrainWords
end == bottom + GrainWords

Min2(a, b) == IF a < b THEN a ELSE b

\* BOTConstants::power_to_cards_back / entry_to_cards_back
power_to_cards_back(i) == 2^(LogBase * i)
entry_to_cards_back(entry) == power_to_cards_back(entry - N_words)

\* G1SemeruBlockOffsetTable::index_for / address_for_index / is_card_boundary
index_for(p) == (p - reserved_start) \div N_words
address_for_index(index) == reserved_start + index * N_words
is_card_boundary(p) == (p - reserved_start) % N_words = 0

\* the cards of the region's part of the table
RegionCardSet == index_for(bottom)..(index_for(end) - 1)

\* set_offset_array(index, high, low): the entry is a u_char, so the
\* pointer difference is stored modulo 256
set_offset_array(b, index, high, low) ==
  IF index \in DOMAIN b THEN [b EXCEPT ![index] = (high - low) % 256] ELSE b

\* set_offset_array(left, right, offset): one value over a closed card range
set_offset_array_range(b, left, right, offset) ==
  [c \in DOMAIN b |-> IF left <= c /\ c <= right THEN offset ELSE b[c]]

\* set_remainder_to_point_to_start_incl(start_card, end_card), closed interval
set_remainder_to_point_to_start_incl(b, start_card, end_card) ==
  LET RECURSIVE loop(_, _, _)
      loop(bb, i, start_card_for_region) ==
        IF i >= N_powers THEN bb
        ELSE LET reach == start_card - 1 + (power_to_cards_back(i + 1) - 1)
                 offset == N_words + i
             IN IF reach >= end_card
                  THEN set_offset_array_range(bb, start_card_for_region, end_card, offset)
                  ELSE loop(set_offset_array_range(bb, start_card_for_region, reach, offset),
                            i + 1, reach + 1)
  IN IF start_card > end_card THEN b ELSE loop(b, 0, start_card)

\* set_remainder_to_point_to_start(start, end), right-open interval of addresses
set_remainder_to_point_to_start(b, start, end_) ==
  IF start >= end_ THEN b
  ELSE set_remainder_to_point_to_start_incl(b, index_for(start), index_for(end_ - 1))

\* alloc_block_work(&threshold, &index, blk_start, blk_end): the new table and
\* the values copied out to *threshold_ and *index_
alloc_block_work(b, threshold, index, blk_start, blk_end) ==
  LET b1 == set_offset_array(b, index, threshold, blk_start)
      end_index == index_for(blk_end - 1)
      b2 == IF index + 1 <= end_index
              THEN set_remainder_to_point_to_start(
                     b1, address_for_index(index + 1),
                     address_for_index(end_index) + N_words)
              ELSE b1
  IN [bot |-> b2,
      threshold |-> address_for_index(end_index) + N_words,
      index |-> end_index + 1]

\* the preconditions alloc_block_work asserts (lines 272-283)
alloc_block_work_pre(threshold, index, blk_start, blk_end) ==
  /\ blk_end > blk_start
  /\ blk_end > threshold
  /\ blk_start <= threshold
  /\ threshold - blk_start <= N_words
  /\ threshold = reserved_start + index * N_words

\* alloc_block(blk_start, blk_end): only a block that crosses the threshold
\* reaches alloc_block_work
alloc_block(b, threshold, index, pre_ok, blk_start, blk_end) ==
  IF blk_end > threshold
    THEN LET r == alloc_block_work(b, threshold, index, blk_start, blk_end)
         IN [bot |-> r.bot, threshold |-> r.threshold, index |-> r.index,
             pre_ok |-> pre_ok /\ alloc_block_work_pre(threshold, index, blk_start, blk_end)]
    ELSE [bot |-> b, threshold |-> threshold, index |-> index, pre_ok |-> pre_ok]

\* zero_bottom_entry_raw() then initialize_threshold_raw(): reset_bot()
reset_bot(b) ==
  [bot |-> [b EXCEPT ![index_for(bottom)] = 0],
   threshold |-> address_for_index(index_for(bottom) + 1),
   index |-> index_for(bottom) + 1,
   pre_ok |-> TRUE]

\* ------------------------------------------------------------------------
\* Looking a block up.  The heap below top is a sequence of blocks; a word
\* that starts no block holds no object header, and what a lookup reads there
\* (or in a table entry outside the region's part) is not determined by the
\* program: such a lookup has def = FALSE and any result is possible.
\* ------------------------------------------------------------------------
IsBlockStart(q) == \E o \in objs : o.start = q
BlockAt(q) == CHOOSE o \in objs : o.start = q

\* G1CMBitMap::is_marked, get_next_marked_addr
is_marked(bm, a) == a \in bm
get_next_marked_addr(bm, a, limit) ==
  LET later == {x \in bm : x >= a /\ x < limit}
  IN IF later = {} THEN limit
     ELSE CHOOSE x \in later : \A y \in later : x <= y

\* the bounds of region r
HBottom(r) == reserved_start + r * GrainWords
HEnd(r) == HBottom(r) + GrainWords

\* HeapRegion::init_top_at_mark_start, note_start_of_marking and
\* note_end_of_marking, on the record of a region's fields (Part 4)
init_top_at_mark_start(rec, r) ==
  [rec EXCEPT !.prev_tams = HBottom(r), !.next_tams = HBottom(r)]

note_start_of_marking(rec) ==
  [rec EXCEPT !.next_marked = 0, !.next_tams = rec.top]

note_end_of_marking(rec, r) ==
  [rec EXCEPT !.prev_tams = rec.next_tams, !.next_tams = HBottom(r),
              !.prev_marked = rec.next_marked, !.next_marked = 0]

\* The marking information of the region: its top at the start of the
\* previous marking and the marks of that marking.
\* SemeruHeapRegion::is_obj_dead(obj, prev_bitmap): an object below the
\* previous top-at-mark-start that the previous marking did not mark
\* (obj_allocated_since_prev_marking(obj) is obj >= prev_top_at_mark_start())
is_obj_dead(obj, prev_bitmap) ==
  /\ ~(obj >= hr[hrm_index].prev_tams)
  /\ ~is_marked(prev_bitmap, obj)
  /\ hr[hrm_index].type # "OpenArchive"

\* SemeruHeapRegion::block_is_obj(p), for p in the region, with
\* ClassUnloadingWithConcurrentMark set as it is by default
block_is_obj(p) == ~is_obj_dead(p, hr[hrm_index].prev_bitmap)

\* SemeruHeapRegion::block_size_using_bitmap(addr, prev_bitmap): a dead block
\* reaches to the next marked object, or to the previous top-at-mark-start
block_size_using_bitmap(addr, prev_bitmap) ==
  get_next_marked_addr(prev_bitmap, addr, hr[hrm_index].prev_tams) - addr

\* SemeruHeapRegion::block_size(addr), for a block start or top
block_size(q) ==
  IF q = top THEN end - q
  ELSE IF block_is_obj(q) THEN BlockAt(q).size
  ELSE block_size_using_bitmap(q, hr[hrm_index].prev_bitmap)

Undef == [q |-> NULLW, def |-> FALSE]

\* whether base^i <= limit, without computing the power
PowerFits(i, limit) ==
  LET RECURSIVE fits(_, _)
      fits(k, lim) == IF k = 0 THEN lim >= 1
                      ELSE lim >= 2^LogBase /\ fits(k - 1, lim \div (2^LogBase))
  IN fits(i, limit)

\* block_at_or_preceding(addr, has_max_index = true, max_index): walk the
\* back-skip entries down to a card holding a direct offset
block_at_or_preceding(b, addr, max_index) ==
  LET RECURSIVE back(_)
      back(index) ==
        IF index \notin DOMAIN b THEN Undef
        ELSE LET offset == b[index]
             IN IF offset < N_words
                  THEN [q |-> address_for_index(index) - offset, def |-> TRUE]
                ELSE IF offset - N_words >= N_powers THEN Undef
                ELSE IF ~PowerFits(offset - N_words, index) THEN Undef
                ELSE back(index - entry_to_cards_back(offset))
  IN back(Min2(index_for(addr), max_index))

\* forward_to_block_containing_addr_const(q, n, addr)
forward_to_block_containing_addr_const(q, n, addr) ==
  LET RECURSIVE walk(_, _)
      walk(qq, nn) ==
        IF nn <= addr
          THEN IF nn = top \/ IsBlockStart(nn) THEN walk(nn, nn + block_size(nn))
               ELSE Undef
          ELSE [q |-> qq, def |-> TRUE]
  IN IF addr >= top THEN [q |-> top, def |-> TRUE] ELSE walk(q, n)

\* forward_to_block_containing_addr_slow(q, n, addr): walks forward and
\* stamps the table for every block found to cross a card boundary
forward_to_block_containing_addr_slow(b, q, n, addr) ==
  LET n_index == index_for(n)
      next_index0 == n_index + (IF is_card_boundary(n) THEN 0 ELSE 1)
      next_boundary0 == address_for_index(n_index)
                          + (IF n_index = next_index0 THEN 0 ELSE N_words)
      RECURSIVE inner(_, _, _)
      inner(qq, nn, nb) ==
        IF nn <= nb
          THEN IF IsBlockStart(nn) THEN inner(nn, nn + block_size(nn), nb)
               ELSE [q |-> qq, n |-> nn, def |-> FALSE]
          ELSE [q |-> qq, n |-> nn, def |-> TRUE]
      RECURSIVE outer(_, _, _, _, _)
      outer(bb, qq, nn, nb, ni) ==
        IF nb < addr
          THEN LET w == inner(qq, nn, nb)
               IN IF ~w.def THEN [q |-> NULLW, def |-> FALSE, bot |-> bb]
                  ELSE LET r == alloc_block_work(bb, nb, ni, w.q, w.n)
                       IN outer(r.bot, w.q, w.n, r.threshold, r.index)
          ELSE LET c == forward_to_block_containing_addr_const(qq, nn, addr)
               IN [q |-> c.q, def |-> c.def, bot |-> bb]
  IN IF addr >= top THEN [q |-> top, def |-> TRUE, bot |-> b]
     ELSE outer(b, q, n, next_boundary0, next_index0)

\* forward_to_block_containing_addr(q, addr)
forward_to_block_containing_addr(b, q, addr) ==
  IF ~(q = top \/ IsBlockStart(q)) THEN [q |-> NULLW, def |-> FALSE, bot |-> b]
  ELSE LET n == q + block_size(q)
       IN IF n <= addr THEN forward_to_block_containing_addr_slow(b, q, n, addr)
          ELSE [q |-> q, def |-> TRUE, bot |-> b]

\* G1SemeruBlockOffsetTablePart::block_start(addr): the block found, whether
\* the lookup is determined, and the table as the lookup leaves it
block_start(b, addr) ==
  IF addr >= bottom /\ addr < end
    THEN LET p == block_at_or_preceding(b, addr, bot_index - 1)
         IN IF ~p.def THEN [q |-> NULLW, def |-> FALSE, bot |-> b]
            ELSE forward_to_block_containing_addr(b, p.q, addr)
    ELSE [q |-> NULLW, def |-> TRUE, bot |-> b]

\* G1SemeruBlockOffsetTablePart::block_start_const(addr): the lookup that
\* leaves the table as it is
block_start_const(b, addr) ==
  IF addr >= bottom /\ addr < end
    THEN LET p == block_at_or_preceding(b, addr, bot_index - 1)
         IN IF ~p.def THEN Undef
            ELSE forward_to_block_containing_addr_const(
                   p.q,
                   IF p.q = top \/ IsBlockStart(p.q) THEN p.q + block_size(p.q) ELSE NULLW,
                   addr)
    ELSE [q |-> NULLW, def |-> TRUE]

\* the results a lookup of addr can return
block_start_results(addr) ==
  LET r == block_start(bot, addr)
  IN IF r.def THEN {r.q} ELSE {NULLW} \cup (bottom..end)

\* ========================================================================
\* Part 3: allocation in the region
\* ========================================================================
\* the (min_word_size, desired_word_size) pairs of the sequential operations
SeqArgs ==
  {<<1, 1>>, <<3, N_words + 2>>, <<2 * N_words, 9 * N_words + 1>>,
   <<N_words, GrainWords - N_words - 5>>}
\* and of the concurrent allocators
ParArgs == {<<2, 3>>, <<4, 4>>, <<1, 5>>}
BotParArgs == {<<3, 3>>, <<N_words + 2, N_words + 2>>, <<2, 2 * N_words + 5>>}

\* allocate_impl(min_word_size, desired_word_size, &actual_size) on a region
\* whose top is tp: the result, *actual_size and the new top
allocate_impl_no_min_check(tp, min_word_size, desired_word_size) ==
  LET available == end - tp
      want_to_allocate == Min2(available, desired_word_size)
  IN IF want_to_allocate >= 1
       THEN [res |-> tp, actual |-> want_to_allocate, top |-> tp + want_to_allocate]
       ELSE [res |-> NULLW, actual |-> 0, top |-> tp]
allocate_impl_unclamped(tp, min_word_size, desired_word_size) ==
  LET available == end - tp
  IN IF available >= min_word_size
       THEN [res |-> tp, actual |-> desired_word_size, top |-> tp + desired_word_size]
       ELSE [res |-> NULLW, actual |-> 0, top |-> tp]
allocate_impl(tp, min_word_size, desired_word_size) ==
  LET obj == tp
      available == end - obj
      want_to_allocate == Min2(available, desired_word_size)
  IN IF want_to_allocate >= min_word_size
       THEN [res |-> obj, actual |-> want_to_allocate, top |-> obj + want_to_allocate]
       ELSE [res |-> NULLW, actual |-> 0, top |-> tp]

\* one pass of par_allocate_impl's loop up to the compare-and-swap: the value
\* read from top, the top to install, and whether the request fits
par_allocate_impl_read_unclamped(tp, min_word_size, desired_word_size) ==
  [obj |-> tp, want |-> desired_word_size, new_top |-> tp + desired_word_size,
   fits |-> end - tp >= min_word_size]
par_allocate_impl_read(tp, min_word_size, desired_word_size) ==
  LET obj == tp
      available == end - obj
      want_to_allocate == Min2(available, desired_word_size)
  IN [obj |-> obj, want |-> want_to_allocate, new_top |-> obj + want_to_allocate,
      fits |-> want_to_allocate >= min_word_size]

\* Atomic::cmpxchg(new_top, top_addr(), obj): the value found in top and the
\* value left there
cmpxchg_blind(new_val, cur, cmp) == [result |-> cmp, value |-> new_val]
cmpxchg(new_val, cur, cmp) ==
  IF cur = cmp THEN [result |-> cur, value |-> new_val]
  ELSE [result |-> cur, value |-> cur]

\* par_allocate_impl with no other thread writing top: the exchange succeeds
par_allocate_impl_alone(tp, min_word_size, desired_word_size) ==
  LET r == par_allocate_impl_read(tp, min_word_size, desired_word_size)
  IN IF r.fits /\ cmpxchg(r.new_top, tp, r.obj).result = r.obj
       THEN [res |-> r.obj, actual |-> r.want, top |-> r.new_top]
       ELSE [res |-> NULLW, actual |-> 0, top |-> tp]

NewBlock(start, size, rec) ==
  [start |-> start, size |-> size, rec |-> rec, id |-> Cardinality(objs) + 1]

LastOp(op, a, r, tp) ==
  [op |-> op, min |-> a[1], desired |-> a[2], res |-> r.res, actual |-> r.actual,
   top0 |-> tp, def |-> TRUE]

RegionInit ==
  /\ top = bottom
  /\ bot = [c \in RegionCardSet |-> 0]
  /\ bot_threshold = address_for_index(index_for(bottom) + 1)
  /\ bot_index = index_for(bottom) + 1
  /\ bot_pre_ok = TRUE
  /\ objs = {}
  /\ last = [op |-> "initialize", min |-> 0, desired |-> 0, res |-> NULLW,
             actual |-> 0, top0 |-> bottom, def |-> TRUE]
  /\ nops = 0

ThreadsInit ==
  /\ par_alloc_lock = 0
  /\ th = [t \in Allocators |->
             [pc |-> "idle", op |-> "none", min |-> 0, desired |-> 0,
              obj |-> NULLW, want |-> 0, new_top |-> NULLW, res |-> NULLW,
              threshold |-> NULLW, index |-> 0]]

\* ---- sequential region operations, each one whole call -----------------

\* allocate(min, desired, &actual): allocate_impl, then alloc_block
RAllocate(a) ==
  /\ nops < MaxOps /\ ~hr_aborted
  /\ LET r == allocate_impl(top, a[1], a[2])
     IN /\ top' = r.top
        /\ last' = LastOp("allocate", a, r, top)
        /\ IF r.res # NULLW
             THEN LET s == alloc_block(bot, bot_threshold, bot_index, bot_pre_ok,
                                       r.res, r.res + r.actual)
                  IN /\ bot' = s.bot
                     /\ bot_threshold' = s.threshold
                     /\ bot_index' = s.index
                     /\ bot_pre_ok' = s.pre_ok
                     /\ objs' = objs \cup {NewBlock(r.res, r.actual, TRUE)}
             ELSE UNCHANGED <<botVars, objs>>
  /\ nops' = nops + 1
  /\ UNCHANGED <<stsVars, extVars, thrVars>>

\* allocate_no_bot_updates(min, desired, &actual): allocate_impl alone
RAllocateNoBot(a) ==
  /\ nops < MaxOps /\ ~hr_aborted
  /\ LET r == allocate_impl(top, a[1], a[2])
     IN /\ top' = r.top
        /\ last' = LastOp("allocate_impl", a, r, top)
        /\ objs' = IF r.res # NULLW THEN objs \cup {NewBlock(r.res, r.actual, FALSE)}
                   ELSE objs
  /\ nops' = nops + 1
  /\ UNCHANGED <<stsVars, extVars, thrVars, botVars>>

\* par_allocate_no_bot_updates(min, desired, &actual) by the only allocator
RParAllocateNoBot(a) ==
  /\ nops < MaxOps /\ ~hr_aborted
  /\ LET r == par_allocate_impl_alone(top, a[1], a[2])
     IN /\ top' = r.top
        /\ last' = LastOp("par_allocate_impl", a, r, top)
        /\ objs' = IF r.res # NULLW THEN objs \cup {NewBlock(r.res, r.actual, FALSE)}
                   ELSE objs
  /\ nops' = nops + 1
  /\ UNCHANGED <<stsVars, extVars, thrVars, botVars>>

\* the effect of clear(mangle_space): set_top(bottom()); reset_bot()
ClearEffect ==
  /\ top' = bottom
  /\ objs' = {}
  /\ LET s == reset_bot(bot)
     IN /\ bot' = s.bot
        /\ bot_threshold' = s.threshold
        /\ bot_index' = s.index
        /\ bot_pre_ok' = s.pre_ok

NoResult == [res |-> NULLW, actual |-> 0]

RClear ==
  /\ nops < MaxOps /\ ~hr_aborted
  /\ ClearEffect
  /\ last' = LastOp("clear", <<0, 0>>, NoResult, top)
  /\ nops' = nops + 1
  /\ UNCHANGED <<stsVars, extVars, thrVars>>

\* ---- the region's record: type, humongous links, marking data ----------
capacity(r) == (HEnd(r) - HBottom(r)) * HeapWordSize
used(rec, r) == (rec.top - HBottom(r)) * HeapWordSize

HTypes == {"Free", "Eden", "Survivor", "StartsHumongous", "ContinuesHumongous",
           "Old", "OpenArchive", "ClosedArchive"}

is_humongous(rec) == rec.type \in {"StartsHumongous", "ContinuesHumongous"}
is_starts_humongous(rec) == rec.type = "StartsHumongous"
is_old(rec) == rec.type \in {"Old", "OpenArchive", "ClosedArchive"}
is_young(rec) == rec.type \in {"Eden", "Survivor"}
get_trace_type(rec) == rec.type

\* HeapRegionType: the tag each setter stores ...
type_target(op) ==
  CASE op = "set_free" -> "Free"
    [] op = "set_eden" -> "Eden"
    [] op = "set_eden_pre_gc" -> "Eden"
    [] op = "set_survivor" -> "Survivor"
    [] op = "set_old" -> "Old"
    [] op = "set_open_archive" -> "OpenArchive"
    [] op = "set_closed_archive" -> "ClosedArchive"
    [] op = "set_starts_humongous" -> "StartsHumongous"
    [] op = "set_continues_humongous" -> "ContinuesHumongous"

\* ... and the tag its set_from(tag, before) asserts to be the current one;
\* set_free and set_old use set(tag), which checks nothing
type_before(op) ==
  CASE op \in {"set_free", "set_old"} -> "any"
    [] op = "set_eden_pre_gc" -> "Survivor"
    [] OTHER -> "Free"

set_from_ok(op, tag) == type_before(op) = "any" \/ tag = type_before(op)

\* storing a tag; the history field follows the type
with_type(rec, t) ==
  [rec EXCEPT !.type = t,
              !.hum_cleared = FALSE]

\* HeapRegionTracer::send_region_type_change(hrm_index, get_trace_type(), to, ...)
report_region_type_change(ev, r, rec, to) ==
  [n |-> ev.n + 1, r |-> r, from |-> get_trace_type(rec), to |-> to]

\* What an operation leaves behind: the region's fields, the trace event,
\* whether the process aborted, and whether the asserted preconditions held.
Outcome(rec, ev, aborted, pre) ==
  [rec |-> rec, ev |-> ev, aborted |-> aborted, pre |-> pre]

\* the body shared by the setters: report, then _type.set_x(); in a build
\* with ASSERT a failing set_from ends the process after the report
set_type(ab, rec, ev, r, op) ==
  LET ev2 == report_region_type_change(ev, r, rec, type_target(op))
      ok == set_from_ok(op, rec.type)
  IN IF ab /\ ~ok
       THEN Outcome(rec, ev2, TRUE, FALSE)
       ELSE Outcome(with_type(rec, type_target(op)), ev2, FALSE, ok)

\* move_to_old: relabel_as_old() first, the report only when it returned true
move_to_old(ab, rec, ev, r) ==
  IF ab /\ is_humongous(rec) THEN Outcome(rec, ev, TRUE, FALSE)
  ELSE IF is_old(rec) THEN Outcome(rec, ev, FALSE, TRUE)
  ELSE LET rec2 == with_type(rec, "Old")
       IN Outcome(rec2, report_region_type_change(ev, r, rec2, "Old"), FALSE,
                  ~is_humongous(rec))

\* initialize_threshold() of the region's table part
initialize_threshold(r) ==
  [index |-> index_for(HBottom(r)) + 1,
   threshold |-> address_for_index(index_for(HBottom(r)) + 1)]

\* The table part in the region's record: the threshold and the index of the
\* next card to be written, and what set_for_starts_humongous recorded.
\* reset_bot(): zero_bottom_entry and initialize_threshold
reset_bot_in(rec, r) ==
  [rec EXCEPT !.hum_bot = <<>>,
              !.threshold = initialize_threshold(r).threshold,
              !.index = initialize_threshold(r).index]
\* set_for_starts_humongous(obj_top, fill_size): reset_bot(), then
\* alloc_block(bottom, obj_top) and, when fill_size > 0, alloc_block of the
\* filler; a block that ends above the threshold moves the threshold to the
\* card boundary behind its last word, any other block leaves it
set_for_starts_humongous_in(rec, r, obj_top, fill_size) ==
  LET crossed(s, blk_end) ==
        IF blk_end > s.threshold
          THEN [s EXCEPT !.threshold = address_for_index(index_for(blk_end - 1)) + N_words,
                         !.index = index_for(blk_end - 1) + 1]
          ELSE s
      s0 == reset_bot_in(rec, r)
      s1 == crossed(s0, obj_top)
      s2 == IF fill_size > 0 THEN crossed(s1, obj_top + fill_size) ELSE s1
  IN [s2 EXCEPT !.hum_bot = <<obj_top, fill_size>>]

set_starts_humongous_pre(rec, r) == ~is_humongous(rec) /\ rec.top = HBottom(r)

set_starts_humongous(ab, rec, ev, r, obj_top, fill_size) ==
  LET pre == set_starts_humongous_pre(rec, r)
      o == set_type(ab, rec, ev, r, "set_starts_humongous")
  IN IF ab /\ ~pre THEN Outcome(rec, ev, TRUE, FALSE)
     ELSE IF o.aborted THEN o
     ELSE Outcome(set_for_starts_humongous_in([o.rec EXCEPT !.hsr = r], r,
                                              obj_top, fill_size),
                  o.ev, FALSE, pre /\ o.pre)

set_continues_humongous_pre(rec, r, first_rec) ==
  ~is_humongous(rec) /\ rec.top = HBottom(r) /\ is_starts_humongous(first_rec)

set_continues_humongous_self(ab, rec, ev, r, first_hr, first_rec) ==
  LET pre == set_continues_humongous_pre(rec, r, first_rec)
      o == set_type(ab, rec, ev, r, "set_continues_humongous")
  IN IF ab /\ ~pre THEN Outcome(rec, ev, TRUE, FALSE)
     ELSE IF o.aborted THEN o
     ELSE Outcome([o.rec EXCEPT !.hsr = r, !.can_span = TRUE],
                  o.ev, FALSE, pre /\ o.pre)

set_continues_humongous(ab, rec, ev, r, first_hr, first_rec) ==
  LET pre == set_continues_humongous_pre(rec, r, first_rec)
      o == set_type(ab, rec, ev, r, "set_continues_humongous")
  IN IF ab /\ ~pre THEN Outcome(rec, ev, TRUE, FALSE)
     ELSE IF o.aborted THEN o
     ELSE Outcome([o.rec EXCEPT !.hsr = first_hr, !.can_span = TRUE],
                  o.ev, FALSE, pre /\ o.pre)

clear_humongous_pre(rec, r) == is_humongous(rec) /\ capacity(r) = GrainBytes

clear_humongous(ab, rec, ev, r) ==
  LET pre == clear_humongous_pre(rec, r)
  IN IF ab /\ ~pre THEN Outcome(rec, ev, TRUE, FALSE)
     ELSE Outcome([rec EXCEPT !.hsr = NULLW, !.can_span = FALSE,
                              !.hum_cleared = TRUE],
                  ev, FALSE, pre)

\* HeapRegion::clear: set_top(bottom()); CompactibleSpace::clear; reset_bot()
clear(rec, r) == reset_bot_in([rec EXCEPT !.top = HBottom(r)], r)

zero_marked_bytes(rec) == [rec EXCEPT !.prev_marked = 0, !.next_marked = 0]

hr_clear_pre(rec) == rec.hsr = NULLW /\ ~rec.in_cset

hr_clear_keeps_tams(ab, rec, ev, r, keep_remset, clear_space, locked) ==
  LET pre == hr_clear_pre(rec)
      o == set_type(ab, rec, ev, r, "set_free")
      rec2 == IF keep_remset THEN o.rec ELSE [o.rec EXCEPT !.remset = FALSE]
      rec3 == zero_marked_bytes(rec2)
      rec4 == IF clear_space THEN clear(rec3, r) ELSE rec3
  IN IF ab /\ ~pre THEN Outcome(rec, ev, TRUE, FALSE)
     ELSE Outcome(rec4, o.ev, FALSE, pre)

hr_clear(ab, rec, ev, r, keep_remset, clear_space, locked) ==
  LET pre == hr_clear_pre(rec)
      o == set_type(ab, rec, ev, r, "set_free")
      rec2 == IF keep_remset THEN o.rec ELSE [o.rec EXCEPT !.remset = FALSE]
      rec3 == init_top_at_mark_start(zero_marked_bytes(rec2), r)
      rec4 == IF clear_space THEN clear(rec3, r) ELSE rec3
  IN IF ab /\ ~pre THEN Outcome(rec, ev, TRUE, FALSE)
     ELSE Outcome(rec4, o.ev, FALSE, pre)

\* hr_clear(keep_remset, clear_space, locked) on the region modelled: the
\* type-change event of set_free(), the remembered set, the marked bytes and
\* the tops at mark start are those of the region's record; the record's top
\* stands still, the region's top being the variable top
HrClearRecord(keep_remset, clear_space) ==
  LET o == hr_clear(assert_build, hr[hrm_index], hr_event, hrm_index, keep_remset,
                    clear_space, FALSE)
  IN /\ hr' = [hr EXCEPT ![hrm_index] = o.rec]
     /\ hr_event' = o.ev
     /\ hr_aborted' = o.aborted
     /\ hr_pre_ok' = (hr_pre_ok /\ o.pre)

\* hr_clear(keep_remset, clear_space, locked): the space is cleared only
\* when clear_space is set
RHrClear(keep_remset, clear_space) ==
  /\ nops < MaxOps /\ ~hr_aborted
  /\ HrClearRecord(keep_remset, clear_space)
  /\ IF clear_space THEN ClearEffect ELSE UNCHANGED <<top, objs, botVars>>
  /\ last' = LastOp("hr_clear", <<0, 0>>, NoResult, top)
  /\ nops' = nops + 1
  /\ UNCHANGED <<stsVars, extVarsButHrClear, thrVars>>

\* initialize(mr): hr_clear(false, false); set_top(bottom()); reset_bot()
RInitialize ==
  /\ nops < MaxOps /\ ~hr_aborted
  /\ HrClearRecord(FALSE, FALSE)
  /\ ClearEffect
  /\ last' = LastOp("initialize", <<0, 0>>, NoResult, top)
  /\ nops' = nops + 1
  /\ UNCHANGED <<stsVars, extVarsButHrClear, thrVars>>

\* note_start_of_marking(): the region's top becomes the next top at mark
\* start
RNoteStartOfMarking ==
  /\ nops < MaxOps /\ ~hr_aborted
  /\ hr' = [hr EXCEPT ![hrm_index] =
               [note_start_of_marking([@ EXCEPT !.top = top])
                  EXCEPT !.top = hr[hrm_index].top]]
  /\ last' = LastOp("note_start_of_marking", <<0, 0>>, NoResult, top)
  /\ nops' = nops + 1
  /\ UNCHANGED <<stsVars, extVarsButHr, thrVars, top, objs, botVars>>

\* note_end_of_marking(): the next top at mark start becomes the previous
\* one.  The marking that ends here has marked some of the objects below its
\* top at mark start, and the bitmap holding these marks is the previous
\* bitmap from now on (the collector swaps the two bitmaps at this point).
RNoteEndOfMarking(marks) ==
  /\ nops < MaxOps /\ ~hr_aborted
  /\ marks \subseteq {o.start : o \in objs}
  /\ \A m \in marks : m < hr[hrm_index].next_tams
  /\ hr' = [hr EXCEPT ![hrm_index] =
               [note_end_of_marking(@, hrm_index) EXCEPT !.prev_bitmap = marks]]
  /\ last' = LastOp("note_end_of_marking", <<0, 0>>, NoResult, top)
  /\ nops' = nops + 1
  /\ UNCHANGED <<stsVars, extVarsButHr, thrVars, top, objs, botVars>>

\* block_start(addr) on an address below top: the lookup may stamp the table.
\* last.def = FALSE records a lookup that read an undefined value (a table
\* entry outside the table, a shift as wide as the word, a block size where
\* no block starts): the read may end the process (a fault), and when it does
\* not the result is any member of block_start_results(addr), and last.res
\* stands for all of them.
QueryAddrs == {bottom, bottom + 1, bottom + N_words, top - 1, bottom + 10 * N_words}
RBlockStart(addr) ==
  /\ nops < MaxOps /\ ~hr_aborted
  /\ addr >= bottom /\ addr < top
  /\ LET r == block_start(bot, addr)
     IN /\ bot' = r.bot
        /\ last' = [op |-> "block_start", min |-> addr, desired |-> 0, res |-> r.q,
                    actual |-> 0, top0 |-> top, def |-> r.def]
        /\ hr_aborted' \in (IF r.def THEN {FALSE} ELSE BOOLEAN)
  /\ nops' = nops + 1
  /\ UNCHANGED <<stsVars, assert_build, hrVars, rdmaVars, cmpVars, arVars, thrVars,
                 top, objs, bot_threshold, bot_index, bot_pre_ok>>

\* G1SemeruBlockOffsetTablePart::set_for_starts_humongous(obj_top, fill_size):
\* reset_bot(); alloc_block(bottom, obj_top); and, when fill_size > 0,
\* alloc_block(obj_top, fill_size)
alloc_block_in(s, blk_start, blk_end) ==
  alloc_block(s.bot, s.threshold, s.index, s.pre_ok, blk_start, blk_end)
alloc_filler(s, obj_top, fill_size) ==
  IF fill_size > 0 THEN alloc_block_in(s, obj_top, obj_top + fill_size) ELSE s
set_for_starts_humongous_no_reset(s, obj_top, fill_size) ==
  alloc_filler(alloc_block_in(s, bottom, obj_top), obj_top, fill_size)
set_for_starts_humongous(s, obj_top, fill_size) ==
  alloc_filler(alloc_block_in(reset_bot(s.bot), bottom, obj_top), obj_top, fill_size)

\* the arguments of set_starts_humongous: objects of one word, of more than
\* 64 cards and of the whole region, with and without a filler
HumongousArgs ==
  {a \in {bottom + 1, bottom + 65 * N_words + 3, end} \X {0, 2}
     : a[1] + a[2] <= end}
SetTable(s) ==
  /\ bot' = s.bot
  /\ bot_threshold' = s.threshold
  /\ bot_index' = s.index
  /\ bot_pre_ok' = s.pre_ok

\* HeapRegion::set_starts_humongous(obj_top, fill_size): the asserts (region
\* not humongous, top at bottom), the type-change event, the type and the
\* back-pointer to the region itself in the region's record, then
\* set_for_starts_humongous on the table.  The call does not write top.  In a
\* build without ASSERT it is not held to an empty region.  The region's top
\* and table are the variables top, bot, bot_threshold and bot_index; the
\* record's own top and table fields stand still.
RSetStartsHumongous(a) ==
  /\ nops < MaxOps /\ ~hr_aborted
  /\ LET o == set_starts_humongous(assert_build, [hr[hrm_index] EXCEPT !.top = top],
                                   hr_event, hrm_index, a[1], a[2])
     IN /\ hr' = [hr EXCEPT ![hrm_index] =
                     [o.rec EXCEPT !.top = hr[hrm_index].top,
                                   !.hum_bot = hr[hrm_index].hum_bot,
                                   !.threshold = hr[hrm_index].threshold,
                                   !.index = hr[hrm_index].index]]
        /\ hr_event' = o.ev
        /\ hr_aborted' = o.aborted
        /\ hr_pre_ok' = (hr_pre_ok /\ o.pre)
        /\ IF o.aborted THEN UNCHANGED botVars
           ELSE SetTable(set_for_starts_humongous(
                           [bot |-> bot, threshold |-> bot_threshold,
                            index |-> bot_index, pre_ok |-> bot_pre_ok], a[1], a[2]))
  /\ last' = [op |-> "set_starts_humongous", min |-> a[1], desired |-> a[2],
              res |-> NULLW, actual |-> 0, top0 |-> top, def |-> TRUE]
  /\ nops' = nops + 1
  /\ UNCHANGED <<stsVars, extVarsButHrClear, thrVars, top, objs>>

\* The humongous allocation of which the call is a step (the region's top is
\* at bottom "before allocation"): the heap has the object at bottom and the
\* filler behind it, which become the region's blocks, and sets top behind
\* them.  The table and the region's record are left as the call left them.
RHumongousObjAllocate ==
  /\ ~hr_aborted /\ last.op = "set_starts_humongous"
  /\ objs' = {[start |-> bottom, size |-> last.min - bottom, rec |-> TRUE, id |-> 1]}
              \cup (IF last.desired > 0
                      THEN {[start |-> last.min, size |-> last.desired,
                             rec |-> TRUE, id |-> 2]}
                      ELSE {})
  /\ top' = last.min + last.desired
  /\ last' = [last EXCEPT !.op = "humongous_obj_allocate"]
  /\ UNCHANGED <<stsVars, extVars, thrVars, botVars, nops>>

\* G1SemeruBlockOffsetTablePart::verify(): every card from the one of bottom
\* up to, not including, the one of top - 1 is checked in turn.  From an
\* offset entry the blocks are walked up to the card, and each must end after
\* its start and at or below top; a skip entry must go back by at least one
\* card and not beyond the region's first card.  Each check is a guarantee:
\* "fail" is the process ending at the first that does not hold.  "undef" is
\* a walk that read the size of a block at an address where none starts, or a
\* skip whose shift is as wide as the word.
G1SemeruBlockOffsetTablePart_verify(b) ==
  LET start_card == index_for(bottom)
      end_card == index_for(top - 1)
      RECURSIVE walk(_, _)
      walk(obj_end, card_address) ==
        IF obj_end < card_address
          THEN IF ~IsBlockStart(obj_end) THEN "undef"
               ELSE LET next_end == obj_end + block_size(obj_end)
                    IN IF next_end > obj_end /\ next_end <= top
                         THEN walk(next_end, card_address)
                         ELSE "fail"
          ELSE "ok"
      check(current_card) ==
        LET entry == b[current_card]
        IN IF entry < N_words
             THEN walk(address_for_index(current_card) - entry,
                       address_for_index(current_card))
           ELSE IF LogBase * (entry - N_words) >= 8 * HeapWordSize  \* bits of a size_t
             THEN "undef"
           ELSE IF PowerFits(entry - N_words, current_card - start_card)
                   /\ address_for_index(current_card - entry_to_cards_back(entry))
                        >= bottom
             THEN "ok"
           ELSE "fail"
      bad == {c \in start_card..(end_card - 1) : check(c) # "ok"}
  IN IF bad = {} THEN "ok"
     ELSE check(CHOOSE c \in bad : \A d \in bad : c <= d)

\* HeapRegion::verify(vo, failures) on a region that is not humongous: the
\* walk over the blocks below top; the table's own verify() when the region
\* is neither young nor empty; the test that the walk ended at top; and then
\* the look-ups in [top, end): top, top + 1 when below end, the middle when
\* below end, and end - 1 must yield top one after the other; the first that
\* does not sets *failures and returns.  res is top when verify passed and
\* NULLW when it set *failures or the process ended in a guarantee of the
\* table's verify(); actual counts the look-ups made; guar is the outcome of
\* the table's verify().  (The checks of the objects' classes and references
\* are not part of this model.)
VerifyAddrs(p) ==
  <<p>> \o (IF p + 1 < end THEN <<p + 1>> ELSE <<>>)
        \o (IF p + ((end - p) \div 2) < end THEN <<p + ((end - p) \div 2)>> ELSE <<>>)
        \o <<end - 1>>
VerifyAddrSet(p) == {VerifyAddrs(p)[i] : i \in DOMAIN VerifyAddrs(p)}
verify_bot(b, p) ==
  IF p < end
    THEN LET addrs == VerifyAddrs(p)
             bad == {i \in DOMAIN addrs : block_start_const(b, addrs[i]).q # p}
             made == IF bad = {} THEN Len(addrs)
                     ELSE CHOOSE i \in bad : \A j \in bad : i <= j
         IN [res |-> IF bad = {} THEN p ELSE NULLW,
             def |-> \A i \in 1..made : block_start_const(b, addrs[i]).def,
             actual |-> made, guar |-> "ok"]
    ELSE [res |-> p, def |-> TRUE, actual |-> 0, guar |-> "ok"]
\* the walk of verify: p = bottom; while (p < top) p += block_size(p)
verify_walk ==
  LET RECURSIVE walk(_)
      walk(p) == IF p >= top THEN [q |-> p, def |-> TRUE]
                 ELSE IF ~IsBlockStart(p) THEN Undef
                 ELSE walk(p + block_size(p))
  IN walk(bottom)
verify ==
  LET w == verify_walk
      g == IF ~is_young(hr[hrm_index]) /\ top # bottom
             THEN G1SemeruBlockOffsetTablePart_verify(bot)
             ELSE "ok"
  IN IF ~w.def THEN [res |-> NULLW, def |-> FALSE, actual |-> 0, guar |-> "undef"]
     ELSE IF g # "ok" THEN [res |-> NULLW, def |-> g = "fail", actual |-> 0, guar |-> g]
     ELSE IF w.q # top THEN [res |-> NULLW, def |-> TRUE, actual |-> 0, guar |-> "ok"]
     ELSE verify_bot(bot, w.q)
\* a guarantee that does not hold ends the process; after a read of an
\* undefined value, in the walk, in the table's verify() or in one of the
\* look-ups, the process may have ended (a fault) or may go on
RVerify ==
  /\ nops < MaxOps /\ ~hr_aborted
  /\ last' = [op |-> "verify", min |-> 0, desired |-> 0, res |-> verify.res,
              actual |-> verify.actual, top0 |-> top, def |-> verify.def]
  /\ hr_aborted' \in (IF verify.guar = "fail" THEN {TRUE}
                      ELSE IF ~verify.def THEN BOOLEAN
                      ELSE {FALSE})
  /\ nops' = nops + 1
  /\ UNCHANGED <<stsVars, assert_build, hrVars, rdmaVars, cmpVars, arVars, thrVars,
                 top, objs, botVars>>

RegionNext ==
  \/ \E a \in SeqArgs : RAllocate(a)
  \/ \E a \in SeqArgs : RAllocateNoBot(a)
  \/ \E a \in SeqArgs : RParAllocateNoBot(a)
  \/ RClear
  \/ \E keep_remset, clear_space \in BOOLEAN : RHrClear(keep_remset, clear_space)
  \/ RInitialize
  \/ \E addr \in QueryAddrs : RBlockStart(addr)
  \/ RVerify
  \/ RNoteStartOfMarking
  \/ \E marks \in SUBSET {o.start : o \in objs} : RNoteEndOfMarking(marks)

\* a region that is allocated in, cleared and made the first of a humongous
\* object
HumongousNext ==
  \/ \E a \in SeqArgs : RAllocate(a)
  \/ \E a \in SeqArgs : RAllocateNoBot(a)
  \/ RClear
  \/ \E a \in HumongousArgs : RSetStartsHumongous(a)
  \/ RHumongousObjAllocate

\* ---- concurrent allocators: one action per shared-memory step ----------
\* Positions of an allocating thread:
\*   "idle"       between calls
\*   "pai_read"   par_allocate_impl: about to read top              (line 412)
\*   "pai_cas"    par_allocate_impl: about to compare-and-swap top  (line 417)
\*   "ai_read"    allocate_impl: about to read top                  (line 387)
\*   "ai_set"     allocate_impl: about to set_top(new_top)          (line 392)
\*   "al_bot"     allocate: about to alloc_block(res, actual)       (line 437)
\*   "abw_..."    alloc_block_work: see AlBlockWork
\*   "pa_lock"    par_allocate: waiting for _par_alloc_lock         (line 458)
\*   "pa_unlock"  par_allocate: about to release _par_alloc_lock    (line 460)
\*   "clr_top"    clear: about to set_top(bottom())                 (line 965)
\*   "clr_bot"    clear: about to reset_bot()                       (line 967)
\*   "itr_..."    initialize_threshold_raw: see ClrInitializeThreshold
MaxCalls == 3

Th(t, pc) == [th EXCEPT ![t].pc = pc]

\* MutexLocker x(&_par_alloc_lock): the lock can be taken when nobody owns it
lock_available_always(owner) == TRUE
lock_available(owner) == owner = 0

\* a call by thread t: its arguments become the thread's locals
TEnter(t, op, a, pc) ==
  /\ th[t].pc = "idle"
  /\ nops < MaxCalls
  /\ nops' = nops + 1
  /\ th' = [th EXCEPT ![t] = [pc |-> pc, op |-> op, min |-> a[1], desired |-> a[2],
                              obj |-> NULLW, want |-> 0, new_top |-> NULLW,
                              res |-> NULLW, threshold |-> NULLW, index |-> 0]]
  /\ UNCHANGED <<stsVars, top, botVars, objs, last, par_alloc_lock>>
TCall(t, op, a, pc) == TEnter(t, op, a, pc) /\ UNCHANGED extVars

CallParAllocateNoBot(t) == \E a \in ParArgs : TCall(t, "par_allocate_no_bot_updates", a, "pai_read")
CallAllocateNoBot(t) == \E a \in ParArgs : TCall(t, "allocate_no_bot_updates", a, "ai_read")
CallAllocate(t) == \E a \in ParArgs : TCall(t, "allocate", a, "ai_read")
CallParAllocate(t) == \E a \in BotParArgs : TCall(t, "par_allocate", a, "pa_lock")
CallClear(t) == TCall(t, "clear", <<0, 0>>, "clr_top")
\* hr_clear(keep_remset, clear_space, locked): set_free() with its type-change
\* event, the remembered set, the marked bytes and the tops at mark start,
\* none of which the other calls read or write, are one step; the call then
\* reaches clear() when clear_space is set and returns otherwise
CallHrClear(t) ==
  \E keep_remset, clear_space \in BOOLEAN :
    /\ TEnter(t, "hr_clear", <<0, 0>>, IF clear_space THEN "clr_top" ELSE "idle")
    /\ HrClearRecord(keep_remset, FALSE)
    /\ UNCHANGED extVarsButHrClear
\* initialize(mr): hr_clear(false, false); set_top(bottom()); reset_bot()
CallInitialize(t) ==
  /\ TEnter(t, "initialize", <<0, 0>>, "clr_top")
  /\ HrClearRecord(FALSE, FALSE)
  /\ UNCHANGED extVarsButHrClear

\* par_allocate_impl: read top, decide
PaiRead(t) ==
  /\ th[t].pc = "pai_read"
  /\ LET r == par_allocate_impl_read(top, th[t].min, th[t].desired)
     IN th' = [th EXCEPT ![t].obj = r.obj, ![t].want = r.want, ![t].new_top = r.new_top,
                         ![t].res = NULLW,
                         ![t].pc = IF r.fits THEN "pai_cas" ELSE "idle"]
  /\ UNCHANGED <<stsVars, extVars, regVars, par_alloc_lock>>

\* par_allocate_impl: the compare-and-swap; a failed exchange goes round again
PaiCas_no_exchange(t) ==
  /\ th[t].pc = "pai_cas"
  /\ th' = Th(t, "pai_read")
  /\ UNCHANGED <<stsVars, extVars, regVars, par_alloc_lock>>
PaiCas(t) ==
  /\ th[t].pc = "pai_cas"
  /\ LET x == cmpxchg(th[t].new_top, top, th[t].obj)
     IN /\ top' = x.value
        /\ IF x.result = th[t].obj
             THEN /\ th' = [th EXCEPT ![t].res = th[t].obj, ![t].pc = "idle"]
                  /\ objs' = objs \cup {NewBlock(th[t].obj, th[t].want, FALSE)}
             ELSE /\ th' = Th(t, "pai_read")
                  /\ UNCHANGED objs
  /\ UNCHANGED <<stsVars, extVars, botVars, last, nops, par_alloc_lock>>

\* allocate_impl: read top, decide
AiRead(t) ==
  /\ th[t].pc = "ai_read"
  /\ LET r == allocate_impl(top, th[t].min, th[t].desired)
     IN th' = [th EXCEPT ![t].obj = top, ![t].want = r.actual, ![t].new_top = r.top,
                         ![t].res = NULLW,
                         ![t].pc = IF r.res # NULLW THEN "ai_set"
                                   ELSE IF th[t].op = "par_allocate" THEN "pa_unlock"
                                   ELSE "idle"]
  /\ UNCHANGED <<stsVars, extVars, regVars, par_alloc_lock>>

\* allocate_impl: set_top(new_top), a plain store
AiSet(t) ==
  /\ th[t].pc = "ai_set"
  /\ top' = th[t].new_top
  /\ objs' = objs \cup {NewBlock(th[t].obj, th[t].want, FALSE)}
  /\ th' = [th EXCEPT ![t].res = th[t].obj,
                      ![t].pc = IF th[t].op = "allocate_no_bot_updates" THEN "idle"
                                ELSE "al_bot"]
  /\ UNCHANGED <<stsVars, extVars, botVars, last, nops, par_alloc_lock>>

\* allocate: _bot_part.alloc_block(res, *actual_size).  No lock is held (but
\* in par_allocate), so every read and store of the call is a step of its own.
\* alloc_block(blk_start, blk_end): the test against _next_offset_threshold;
\* only a block that crosses the threshold reaches alloc_block_work
AlDone(t) == IF th[t].op = "par_allocate" THEN "pa_unlock" ELSE "idle"
Recorded(t) ==
  {IF o.start = th[t].res /\ o.size = th[t].want THEN [o EXCEPT !.rec = TRUE]
   ELSE o : o \in objs}
AlBot(t) ==
  /\ th[t].pc = "al_bot"
  /\ IF th[t].res + th[t].want > bot_threshold
       THEN th' = Th(t, "abw_threshold") /\ UNCHANGED objs
       ELSE th' = Th(t, AlDone(t)) /\ objs' = Recorded(t)
  /\ UNCHANGED <<stsVars, extVars, top, botVars, last, nops, par_alloc_lock>>

\* alloc_block_work(&_next_offset_threshold, &_next_offset_index, blk_start,
\* blk_end), step by step:
\*   "abw_threshold"  copy-in: threshold = *threshold_          (line 269)
\*   "abw_index"      copy-in: index = *index_                  (line 270)
\*   "abw_table"      the stores into the offset array          (lines 290-303)
\*   "abw_out_thr"    copy-out: *threshold_ = threshold         (line 312)
\*   "abw_out_idx"    copy-out: *index_ = index                 (line 313)
\* The stores into the offset array are one step: no other step of these
\* calls reads the array, and two stores to one entry come in either order.
AlBlockWork(t) ==
  /\ \/ /\ th[t].pc = "abw_threshold"
        /\ th' = [th EXCEPT ![t].threshold = bot_threshold, ![t].pc = "abw_index"]
        /\ UNCHANGED <<botVars, objs>>
     \/ /\ th[t].pc = "abw_index"
        /\ th' = [th EXCEPT ![t].index = bot_index, ![t].pc = "abw_table"]
        /\ UNCHANGED <<botVars, objs>>
     \/ /\ th[t].pc = "abw_table"
        /\ LET s == alloc_block_work(bot, th[t].threshold, th[t].index,
                                     th[t].res, th[t].res + th[t].want)
           IN /\ bot' = s.bot
              /\ bot_pre_ok' = (bot_pre_ok /\
                                 alloc_block_work_pre(th[t].threshold, th[t].index,
                                                      th[t].res, th[t].res + th[t].want))
              /\ th' = [th EXCEPT ![t].threshold = s.threshold, ![t].index = s.index,
                                  ![t].pc = "abw_out_thr"]
        /\ objs' = Recorded(t)
        /\ UNCHANGED <<bot_threshold, bot_index>>
     \/ /\ th[t].pc = "abw_out_thr"
        /\ bot_threshold' = th[t].threshold
        /\ th' = Th(t, "abw_out_idx")
        /\ UNCHANGED <<bot, bot_index, bot_pre_ok, objs>>
     \/ /\ th[t].pc = "abw_out_idx"
        /\ bot_index' = th[t].index
        /\ th' = [th EXCEPT ![t].threshold = NULLW, ![t].index = 0, ![t].pc = AlDone(t)]
        /\ UNCHANGED <<bot, bot_threshold, bot_pre_ok, objs>>
  /\ UNCHANGED <<stsVars, extVars, top, last, nops, par_alloc_lock>>

\* par_allocate: MutexLocker x(&_par_alloc_lock)
PaLock(t) ==
  /\ th[t].pc = "pa_lock"
  /\ lock_available(par_alloc_lock)
  /\ par_alloc_lock' = t
  /\ th' = Th(t, "ai_read")
  /\ UNCHANGED <<stsVars, extVars, regVars>>

\* par_allocate: the locker's destructor, on return
PaUnlock(t) ==
  /\ th[t].pc = "pa_unlock"
  /\ par_alloc_lock' = 0
  /\ th' = Th(t, "idle")
  /\ UNCHANGED <<stsVars, extVars, regVars>>

\* clear: set_top(bottom())
ClrTop(t) ==
  /\ th[t].pc = "clr_top"
  /\ top' = bottom
  /\ objs' = {}
  /\ th' = Th(t, "clr_bot")
  /\ UNCHANGED <<stsVars, extVars, botVars, last, nops, par_alloc_lock>>

\* clear: reset_bot(), which is zero_bottom_entry_raw() and then
\* initialize_threshold_raw().  clear() holds no lock either.
\* zero_bottom_entry_raw(): the entry of the bottom card becomes 0
ClrBot(t) ==
  /\ th[t].pc = "clr_bot"
  /\ bot' = [bot EXCEPT ![index_for(bottom)] = 0]
  /\ th' = Th(t, "itr_index")
  /\ UNCHANGED <<stsVars, extVars, top, objs, last, nops, par_alloc_lock,
                 bot_threshold, bot_index, bot_pre_ok>>

\* initialize_threshold_raw(), step by step:
\*   "itr_index"      _next_offset_index = index_for_raw(bottom)      (line 410)
\*   "itr_inc_read"   _next_offset_index++: the read                  (line 411)
\*   "itr_inc_write"  _next_offset_index++: the store                 (line 411)
\*   "itr_thr_read"   the index that address_for_index_raw is given   (line 413)
\*   "itr_threshold"  _next_offset_threshold = address_for_index_raw  (line 412)
\* The index given to address_for_index_raw is the member read again, or the
\* value just stored when the build keeps it in a register.
ClrInitializeThreshold(t) ==
  /\ \/ /\ th[t].pc = "itr_index"
        /\ bot_index' = index_for(bottom)
        /\ th' = Th(t, "itr_inc_read")
        /\ UNCHANGED <<bot_threshold, bot_pre_ok>>
     \/ /\ th[t].pc = "itr_inc_read"
        /\ th' = [th EXCEPT ![t].index = bot_index, ![t].pc = "itr_inc_write"]
        /\ UNCHANGED <<bot_threshold, bot_index, bot_pre_ok>>
     \/ /\ th[t].pc = "itr_inc_write"
        /\ bot_index' = th[t].index + 1
        /\ th' = [th EXCEPT ![t].index = th[t].index + 1, ![t].pc = "itr_thr_read"]
        /\ UNCHANGED <<bot_threshold, bot_pre_ok>>
     \/ /\ th[t].pc = "itr_thr_read"
        /\ \E i \in {bot_index, th[t].index} :
             th' = [th EXCEPT ![t].index = i, ![t].pc = "itr_threshold"]
        /\ UNCHANGED <<bot_threshold, bot_index, bot_pre_ok>>
     \/ /\ th[t].pc = "itr_threshold"
        /\ bot_threshold' = address_for_index(th[t].index)
        /\ bot_pre_ok' = TRUE
        /\ th' = [th EXCEPT ![t].index = 0, ![t].pc = "idle"]
        /\ UNCHANGED bot_index
  /\ UNCHANGED <<stsVars, extVars, top, bot, objs, last, nops, par_alloc_lock>>

\* ========================================================================
\* Part 4. HeapRegion: region types, humongous links, hr_clear
\*         (heapRegion.cpp; HeapRegionType as the specification states it).
\*         The operations on a region's record are defined in Part 3, ahead
\*         of the region operations that use them; the actions are here.
\* ========================================================================
NumHRegions == 2                  \* heap regions modelled in this part
HrMaxOps == 3                     \* type and humongous operations per behaviour
HrClearMaxOps == 4                \* operations per behaviour around hr_clear
HrObjWords == 2                   \* size of the object an allocation places
HRegions == 0..(NumHRegions - 1)

\* the region as the constructor and initialize() leave it
HRegionInit(r) ==
  [type |-> "Free", top |-> HBottom(r), hsr |-> NULLW, in_cset |-> FALSE,
   remset |-> FALSE, prev_marked |-> 0, next_marked |-> 0,
   prev_tams |-> HBottom(r), next_tams |-> HBottom(r), can_span |-> FALSE,
   hum_bot |-> <<>>, threshold |-> initialize_threshold(r).threshold,
   index |-> initialize_threshold(r).index, hum_cleared |-> FALSE,
   prev_bitmap |-> {}]

NoEvent == [n |-> 0, r |-> NULLW, from |-> "Free", to |-> "Free"]

HrLast(op, r, keep, space, locked, first, o) ==
  [op |-> op, r |-> r, keep_remset |-> keep, clear_space |-> space,
   locked |-> locked, first_hr |-> first, aborted |-> o.aborted,
   pre |-> o.pre, before |-> hr[r], events |-> hr_event.n]

HrStart(budget, regions) ==
  /\ hr = [r \in regions |-> HRegionInit(r)]
  /\ hr_event = NoEvent
  /\ hr_last = [op |-> "none", r |-> NULLW, keep_remset |-> FALSE,
                clear_space |-> FALSE, locked |-> FALSE, first_hr |-> NULLW,
                aborted |-> FALSE, pre |-> TRUE, before |-> HRegionInit(0),
                events |-> 0]
  /\ hr_pre_ok = TRUE
  /\ hr_left = budget
  /\ hr_aborted = FALSE

ArIdle == g1ar = <<>> /\ sts_time = <<>>

CmpIdle ==
  /\ c_mem = <<>>
  /\ c_bitmap = {}
  /\ c_queue = {}
  /\ c_reg = <<>>
  /\ c_run = [before |-> <<>>]

RdmaIdle ==
  /\ rdma_log = <<>>
  /\ rdma_last = [op |-> "none", r |-> NULLW, returned |-> FALSE]

\* the other parts run with these variables at rest
ExtIdle == assert_build = FALSE /\ HrStart(0, HRegions) /\ RdmaIdle /\ ArIdle /\ CmpIdle

HrInit(budget) ==
  assert_build \in BOOLEAN /\ HrStart(budget, HRegions) /\ RdmaIdle /\ ArIdle /\ CmpIdle

HEnabled == ~hr_aborted /\ hr_left > 0

HApply(r, last_rec, o) ==
  /\ hr' = [hr EXCEPT ![r] = o.rec]
  /\ hr_event' = o.ev
  /\ hr_aborted' = o.aborted
  /\ hr_pre_ok' = (hr_pre_ok /\ o.pre)
  /\ hr_last' = last_rec
  /\ hr_left' = hr_left - 1
  /\ UNCHANGED <<stsVars, regVars, thrVars, assert_build, rdmaVars, arVars, cmpVars>>

SimpleSetters == {"set_free", "set_eden", "set_eden_pre_gc", "set_survivor",
                  "set_old", "set_open_archive", "set_closed_archive"}

HSetType(r, op) ==
  /\ HEnabled
  /\ LET o == set_type(assert_build, hr[r], hr_event, r, op)
     IN HApply(r, HrLast(op, r, FALSE, FALSE, FALSE, NULLW, o), o)

HMoveToOld(r) ==
  /\ HEnabled
  /\ LET o == move_to_old(assert_build, hr[r], hr_event, r)
     IN HApply(r, HrLast("move_to_old", r, FALSE, FALSE, FALSE, NULLW, o), o)

HSetStartsHumongous(r) ==
  /\ HEnabled
  /\ LET o == set_starts_humongous(assert_build, hr[r], hr_event, r,
                                   HBottom(r) + HrObjWords, 0)
     IN HApply(r, HrLast("set_starts_humongous", r, FALSE, FALSE, FALSE,
                         NULLW, o), o)

HSetContinuesHumongous(r, first_hr) ==
  /\ HEnabled
  /\ LET o == set_continues_humongous(assert_build, hr[r], hr_event, r,
                                      first_hr, hr[first_hr])
     IN HApply(r, HrLast("set_continues_humongous", r, FALSE, FALSE, FALSE,
                         first_hr, o), o)

HClearHumongous(r) ==
  /\ HEnabled
  /\ LET o == clear_humongous(assert_build, hr[r], hr_event, r)
     IN HApply(r, HrLast("clear_humongous", r, FALSE, FALSE, FALSE, NULLW, o), o)

HHrClear(r, keep_remset, clear_space, locked) ==
  /\ HEnabled
  /\ LET o == hr_clear(assert_build, hr[r], hr_event, r, keep_remset,
                       clear_space, locked)
     IN HApply(r, HrLast("hr_clear", r, keep_remset, clear_space, locked,
                         NULLW, o), o)

\* steps of the rest of the collector that set the fields hr_clear resets
HEnv(r, op, rec) ==
  /\ HEnabled
  /\ rec # hr[r]
  /\ LET o == Outcome(rec, hr_event, FALSE, TRUE)
     IN HApply(r, HrLast(op, r, FALSE, FALSE, FALSE, NULLW, o), o)

\* an allocation of HrObjWords in an empty region (allocate_impl, moved to
\* the region's address range)
HAllocate(r) ==
  /\ hr[r].top = HBottom(r)
  /\ LET a == allocate_impl(hr[r].top - HBottom(r) + bottom, HrObjWords,
                            HrObjWords)
     IN HEnv(r, "allocate", [hr[r] EXCEPT !.top = a.top - bottom + HBottom(r)])

\* the heap puts the region into, or takes it out of, the collection set
HSetInCSet(r) ==
  /\ r \in DOMAIN hr
  /\ HEnv(r, "in_cset", [hr[r] EXCEPT !.in_cset = ~@])

\* a card is added to the region's remembered set
HAddToRemSet(r) ==
  /\ r \in DOMAIN hr
  /\ HEnv(r, "rem_set_add", [hr[r] EXCEPT !.remset = TRUE])


\* note_self_forwarding_removal_end(marked_bytes): asserts that no more bytes
\* are marked than the region uses, then moves the previous top-at-mark-start
\* to top
note_self_forwarding_removal_end(ab, rec, ev, r, marked_bytes) ==
  LET pre == marked_bytes <= used(rec, r)
  IN IF ab /\ ~pre THEN Outcome(rec, ev, TRUE, FALSE)
     ELSE Outcome([rec EXCEPT !.prev_tams = rec.top, !.prev_marked = marked_bytes],
                  ev, FALSE, pre)

add_to_marked_bytes(rec, incr_bytes) ==
  [rec EXCEPT !.next_marked = @ + incr_bytes]

HNoteStartOfMarking(r) ==
  /\ r \in DOMAIN hr
  /\ HEnv(r, "note_start_of_marking", note_start_of_marking(hr[r]))

HNoteEndOfMarking(r) ==
  /\ r \in DOMAIN hr
  /\ HEnv(r, "note_end_of_marking", note_end_of_marking(hr[r], r))

HNoteSelfForwardingRemovalEnd(r) ==
  /\ r \in DOMAIN hr
  /\ HEnabled
  /\ LET o == note_self_forwarding_removal_end(assert_build, hr[r], hr_event, r,
                                               used(hr[r], r))
     IN /\ o.rec # hr[r]
        /\ HApply(r, HrLast("note_self_forwarding_removal_end", r, FALSE, FALSE,
                            FALSE, NULLW, o), o)

HAddToMarkedBytes(r) ==
  /\ hr[r].next_marked = 0
  /\ hr[r].next_tams > HBottom(r)
  /\ HEnv(r, "add_to_marked_bytes",
          add_to_marked_bytes(hr[r], (hr[r].next_tams - HBottom(r)) * HeapWordSize))

\* HeapRegion::note_self_forwarding_removal_start(during_initial_mark,
\* during_conc_mark)
note_self_forwarding_removal_start(rec, r, during_initial_mark, during_conc_mark) ==
  LET rec1 == [rec EXCEPT !.prev_marked = 0]
  IN IF during_initial_mark
       THEN [rec1 EXCEPT !.next_tams = rec.top, !.next_marked = 0]
     ELSE IF during_conc_mark
       THEN [rec1 EXCEPT !.next_tams = HBottom(r), !.next_marked = 0]
     ELSE rec1

\* SemeruHeapRegion::complete_compaction() on a region whose compaction top
\* is compaction_top: reset_after_compaction() moves top there, reset_bot()
\* when that leaves the region empty, then the marking data is reset
reset_after_compaction(rec, r, compaction_top) ==
  LET rec1 == [rec EXCEPT !.top = compaction_top]
  IN IF rec1.top = HBottom(r) THEN reset_bot_in(rec1, r) ELSE rec1
complete_compaction_at_keep_tams(rec, r, compaction_top) ==
  zero_marked_bytes(reset_after_compaction(rec, r, compaction_top))
complete_compaction_at(rec, r, compaction_top) ==
  init_top_at_mark_start(zero_marked_bytes(reset_after_compaction(rec, r, compaction_top)), r)

\* an allocation of HrObjWords at the region's top (allocate_impl, moved to
\* the region's address range)
HAllocateAtTop(r) ==
  LET a == allocate_impl(hr[r].top - HBottom(r) + bottom, HrObjWords, HrObjWords)
  IN /\ a.res # NULLW
     /\ HEnv(r, "allocate", [hr[r] EXCEPT !.top = a.top - bottom + HBottom(r)])

HNoteSelfForwardingRemovalStart(r, during_initial_mark, during_conc_mark) ==
  /\ r \in DOMAIN hr
  /\ HEnv(r, "note_self_forwarding_removal_start",
          note_self_forwarding_removal_start(hr[r], r, during_initial_mark,
                                             during_conc_mark))

\* the compaction left the region's live objects in [bottom, compaction_top)
HCompleteCompaction(r, compaction_top) ==
  /\ r \in DOMAIN hr
  /\ compaction_top >= HBottom(r) /\ compaction_top <= hr[r].top
  /\ HEnv(r, "complete_compaction", complete_compaction_at(hr[r], r, compaction_top))

\* the marking data of the regions under allocation, marking cycles,
\* evacuation failures, compactions and clears
MarkMaxOps == 5                   \* operations per behaviour
MarkingSpecInit ==
  /\ STSInit /\ RegionInit /\ ThreadsInit
  /\ assert_build = TRUE
  /\ HrStart(MarkMaxOps, HRegions) /\ RdmaIdle /\ ArIdle /\ CmpIdle
MarkingNext ==
  \/ \E r \in HRegions : HAllocateAtTop(r)
  \/ \E r \in HRegions : HNoteStartOfMarking(r)
  \/ \E r \in HRegions : HNoteEndOfMarking(r)
  \/ \E r \in HRegions, during_initial_mark, during_conc_mark \in BOOLEAN :
       HNoteSelfForwardingRemovalStart(r, during_initial_mark, during_conc_mark)
  \/ \E r \in HRegions : HNoteSelfForwardingRemovalEnd(r)
  \/ \E r \in HRegions : HAddToMarkedBytes(r)
  \/ \E r \in HRegions : \E compaction_top \in {HBottom(r), hr[r].top - HrObjWords} :
       HCompleteCompaction(r, compaction_top)
  \/ \E r \in HRegions, clear_space \in BOOLEAN : HHrClear(r, FALSE, clear_space, FALSE)
SpecMarking == MarkingSpecInit /\ [][MarkingNext]_vars

\* ========================================================================
\* Part 5. Region synchronisation with the memory servers (heapRegion.cpp)
\* ========================================================================
NUM_OF_MEMORY_SERVER == 2         \* memory servers
ServerRegions == 2                \* regions in each server's address window
RdmaLocalOps == 1                 \* local region operations per behaviour
Servers == 0..(NUM_OF_MEMORY_SERVER - 1)
SRegions == 0..(NUM_OF_MEMORY_SERVER * ServerRegions - 1)

\* the address window of server s, [lo, hi), the regions divided evenly
WindowLo(s) == reserved_start + s * ServerRegions * GrainWords
WindowHi(s) == WindowLo(s) + ServerRegions * GrainWords
MEMORY_SERVER_1_START_ADDR == WindowLo(1)

\* the server whose window contains the region's [bottom, end)
window_server(r) ==
  CHOOSE s \in Servers : WindowLo(s) <= HBottom(r) /\ HEnd(r) <= WindowHi(s)

region_to_memory_server_mapping(r) ==
  IF HEnd(r) < MEMORY_SERVER_1_START_ADDR THEN 0 ELSE 1

\* the status syscall(RDMA_WRITE / RDMA_READ, ...) returns: 0, or nonzero
RetValues == {0, -1}

Transfer(op, what, server, r, ret) ==
  [op |-> op, what |-> what, server |-> server, region |-> r, ret |-> ret]

send_info_at_gc_bot_first(r, rets) ==
  LET target_mem_id == region_to_memory_server_mapping(r)
  IN << Transfer("RDMA_WRITE", "offset_array_part", target_mem_id, r, rets[1]),
        Transfer("RDMA_WRITE", "CPUToMemoryAtGC", target_mem_id, r, rets[2]),
        Transfer("RDMA_WRITE", "MemoryToCPUAtGC", target_mem_id, r, rets[3]),
        Transfer("RDMA_WRITE", "SyncBetweenMemoryAndCPU", target_mem_id, r, rets[4]) >>

\* the four writes of send_info_at_gc; no status is looked at
send_info_at_gc(r, rets) ==
  LET target_mem_id == region_to_memory_server_mapping(r)
  IN << Transfer("RDMA_WRITE", "CPUToMemoryAtGC", target_mem_id, r, rets[1]),
        Transfer("RDMA_WRITE", "MemoryToCPUAtGC", target_mem_id, r, rets[2]),
        Transfer("RDMA_WRITE", "SyncBetweenMemoryAndCPU", target_mem_id, r, rets[3]),
        Transfer("RDMA_WRITE", "offset_array_part", target_mem_id, r, rets[4]) >>

send_target_queue_at_gc(r, ret) ==
  << Transfer("RDMA_WRITE", "cross_region_ref_target_queue",
              region_to_memory_server_mapping(r), r, ret) >>

read_info_before_gc(r, ret) ==
  << Transfer("RDMA_READ", "MemoryToCPUAtGC",
              region_to_memory_server_mapping(r), r, ret) >>

flush_data(r, ret) ==
  << Transfer("RDMA_WRITE", "region_data",
              region_to_memory_server_mapping(r), r, ret) >>

\* one call of a sync function: rdma_log holds the transfers of the call
RdmaCall(op, r, log, aborted) ==
  /\ ~hr_aborted
  /\ rdma_log' = log
  /\ rdma_last' = [op |-> op, r |-> r, returned |-> ~aborted]
  /\ hr_aborted' = aborted
  /\ UNCHANGED <<stsVars, regVars, thrVars, assert_build, hrVars, cmpVars, arVars>>

SendInfoAtGC(r, rets) ==
  /\ r \in DOMAIN hr
  /\ RdmaCall("send_info_at_gc", r, send_info_at_gc(r, rets), FALSE)

SendTargetQueueAtGC(r, ret) ==
  /\ r \in DOMAIN hr
  /\ RdmaCall("send_target_queue_at_gc", r, send_target_queue_at_gc(r, ret), FALSE)

ReadInfoBeforeGC(r, ret) ==
  /\ r \in DOMAIN hr
  /\ RdmaCall("read_info_before_gc", r, read_info_before_gc(r, ret), FALSE)

\* if (ret) guarantee(false, ...)
FlushData(r, ret) ==
  /\ r \in DOMAIN hr
  /\ RdmaCall("flush_data", r, flush_data(r, ret), ret # 0)

\* ========================================================================
\* Part 6: compacting a region
\*
\* c_mem is the heap, one entry per address at which an object's header
\* stands: mark (the mark word, which holds the forwarding address while the
\* object is forwarded), size (fixed by the klass word), ref (the reference
\* field, which objects of more than HeaderWords words have, NULLW when it
\* holds null), body (the payload, named by the address it was allocated at)
\* and ok (the header and the payload are whole: no copy overwrote a part of
\* them).  c_bitmap holds the addresses the concurrent marking marked.
\* ========================================================================
MaxObjs == 3                      \* objects laid out in a region to compact
HeaderWords == 2                  \* oopDesc::header_size(): mark word, klass word
GapWords == 3                     \* size of a dead object between live ones
CompactSizes == {HeaderWords + 1, 64, 128, 256}

\* the region an address lies in: the bitmask comparison against the grain
addr_to_region(a) == (a - reserved_start) \div GrainWords

\* oopDesc::size(), forwardee(), forward_to(), init_mark_raw()
obj_size(mem, obj) == mem[obj].size
forwardee(mem, obj) == mem[obj].mark
forward_to(mem, obj, dest) == [mem EXCEPT ![obj].mark = dest]
init_mark_raw(mem, obj) == [mem EXCEPT ![obj].mark = NULLW]

\* loading and storing the reference field at address p
load_heap_oop(mem, p) == mem[p - HeaderWords].ref
store_heap_oop(mem, p, v) == [mem EXCEPT ![p - HeaderWords].ref = v]

\* the reference fields oop_iterate visits in an object, within [lo, hi)
oop_fields(mem, obj, lo, hi) ==
  {p \in {obj + HeaderWords} : obj_size(mem, obj) > HeaderWords /\ p >= lo /\ p < hi}

\* G1CMBitMap::clear_region
clear_region(bm, r) == {a \in bm : addr_to_region(a) # r}

\* Copy::aligned_conjoint_words(from, to, size): the ranges may overlap
\* the words [to, to + size) become the first size words of the object at
\* from: the headers that stood in that range are gone, an object reaching
\* into the range from below is no longer whole, and the copy is whole when it
\* took all the words of a whole object
aligned_conjoint_words(mem, from, to, size) ==
  LET gone == {x \in DOMAIN mem : x >= to /\ x < to + size}
      copy == [mem[from] EXCEPT !.ok = mem[from].ok /\ size = mem[from].size]
  IN [x \in (DOMAIN mem \ gone) \cup {to} |->
        IF x = to THEN copy
        ELSE IF x < to /\ x + mem[x].size > to THEN [mem[x] EXCEPT !.ok = FALSE]
        ELSE mem[x]]

\* reset_bot() of region r: zero_bottom_entry, initialize_threshold
reset_bot_of(b, r) ==
  [bot |-> [b EXCEPT ![index_for(HBottom(r))] = 0],
   threshold |-> initialize_threshold(r).threshold,
   index |-> initialize_threshold(r).index,
   pre_ok |-> TRUE]

\* The state a closure works on while it walks a region:
\*   mem, bot, threshold, index, pre_ok   the heap words and the region's table
\*   ctop      the compaction point's _compaction_top
\*   queue     the cross-region reference queue: addresses of recorded fields
\*   visited   history: the objects the closure was applied to, in order
\*   stop      history: next_addr when the walk ended
\*   aborted   an assert failed in a build that compiles asserts in
\*   ab        the build compiles asserts in

\* SemeruHeapRegion::cross_threshold(start, end)
WithTable(st, a) ==
  [st EXCEPT !.bot = a.bot, !.threshold = a.threshold, !.index = a.index,
             !.pre_ok = a.pre_ok]
cross_threshold(st, start, end_) ==
  WithTable(st, alloc_block(st.bot, st.threshold, st.index, st.pre_ok, start, end_))

\* G1FullGCCompactionPoint::forward(object, size): an object already at the
\* compaction top is not forwarded
Advance(s1, size) ==
  IF s1.ctop > s1.threshold THEN cross_threshold(s1, s1.ctop - size, s1.ctop)
  ELSE s1
forward(st, obj, size) ==
  Advance([st EXCEPT
             !.mem = IF obj # st.ctop THEN forward_to(st.mem, obj, st.ctop)
                     ELSE IF forwardee(st.mem, obj) # NULLW
                       THEN init_mark_raw(st.mem, obj)
                     ELSE st.mem,
             !.ctop = st.ctop + size], size)

\* Each closure's apply(object) returns the size of the object, read before
\* the closure changes anything: the operators below give the state the
\* closure leaves, and the walk adds obj_size of the state before.

\* G1SemeruPrepareCompactLiveClosure::apply(object)
G1SemeruPrepareCompactLiveClosure_apply(st, obj) ==
  forward(st, obj, obj_size(st.mem, obj))

\* G1SemeruAdjustClosure::adjust_intra_region_pointer(p, hr): a reference into
\* the region of the field is rewritten to the forwarding address of its
\* target, a reference into another region is recorded for phase 4
adjust_intra_region_pointer_all(st, p, r) ==
  LET target == load_heap_oop(st.mem, p)
  IN IF target = NULLW THEN st
     ELSE IF forwardee(st.mem, target) = NULLW THEN st
     ELSE [st EXCEPT !.mem = store_heap_oop(st.mem, p, forwardee(st.mem, target))]
adjust_intra_region_pointer(st, p, r) ==
  LET target == load_heap_oop(st.mem, p)
  IN IF target = NULLW THEN st
     ELSE IF addr_to_region(target) = r
       THEN IF forwardee(st.mem, target) = NULLW THEN st
            ELSE [st EXCEPT !.mem = store_heap_oop(st.mem, p, forwardee(st.mem, target))]
       ELSE [st EXCEPT !.queue = st.queue \cup {p}]

\* oop_iterate(&adjust_pointer, MemRegion(lo, hi)) on one object
RECURSIVE adjust_fields(_, _, _)
adjust_fields(st, fields, r) ==
  IF fields = {} THEN st
  ELSE LET p == CHOOSE x \in fields : \A y \in fields : x <= y
       IN adjust_fields(adjust_intra_region_pointer(st, p, r), fields \ {p}, r)

\* G1SemeruAdjustLiveClosure::apply(object): oop_iterate_size(_adjust_pointer)
G1SemeruAdjustLiveClosure_apply(st, obj, r) ==
  adjust_fields(st, oop_fields(st.mem, obj, obj, obj + obj_size(st.mem, obj)), r)

\* G1CompactRegionClosure::apply(obj)
G1CompactRegionClosure_apply_short(st, obj) ==
  LET size == obj_size(st.mem, obj)
      destination == forwardee(st.mem, obj)
  IN IF destination = NULLW THEN st
     ELSE [st EXCEPT
             !.mem = init_mark_raw(
                       aligned_conjoint_words(st.mem, obj, destination, size - 1),
                       destination),
             !.aborted = st.aborted \/ (st.ab /\ obj = destination)]
G1CompactRegionClosure_apply(st, obj) ==
  LET size == obj_size(st.mem, obj)
      destination == forwardee(st.mem, obj)
  IN IF destination = NULLW THEN st
     ELSE [st EXCEPT
             !.mem = init_mark_raw(
                       aligned_conjoint_words(st.mem, obj, destination, size),
                       destination),
             !.aborted = st.aborted \/ (st.ab /\ obj = destination)]

\* closure->apply(current) for the three closures handed to
\* apply_to_marked_objects
Visit(st, obj) == [st EXCEPT !.visited = Append(st.visited, obj)]
closure_apply(closure, st, obj, r) ==
  CASE closure = "prepare" -> G1SemeruPrepareCompactLiveClosure_apply(Visit(st, obj), obj)
    [] closure = "adjust" -> G1SemeruAdjustLiveClosure_apply(Visit(st, obj), obj, r)
    [] closure = "compact" -> G1CompactRegionClosure_apply(Visit(st, obj), obj)

\* SemeruHeapRegion::apply_to_marked_objects(bitmap, closure): the loop from
\* next_addr on
RECURSIVE apply_from(_, _, _, _, _, _)
apply_from(closure, st, bm, r, next_addr, limit) ==
  IF next_addr < limit
    THEN IF is_marked(bm, next_addr)
           THEN apply_from(closure, closure_apply(closure, st, next_addr, r), bm, r,
                           next_addr + obj_size(st.mem, next_addr), limit)
           ELSE apply_from(closure, st, bm, r,
                           get_next_marked_addr(bm, next_addr, limit), limit)
    ELSE [st EXCEPT !.stop = next_addr,
                    !.aborted = st.aborted \/ (st.ab /\ next_addr # limit)]

\* the walk from bottom() to limit
apply_to_marked_objects_unmarked_too(closure, st, bm, r, limit) ==
  apply_from(closure, [st EXCEPT !.visited = <<>>], HBottom(r)..limit, r, HBottom(r), limit)
apply_to_marked_objects(closure, st, bm, r, limit) ==
  apply_from(closure, [st EXCEPT !.visited = <<>>], bm, r, HBottom(r), limit)

\* ---- the phases on one region ------------------------------------------
\* A region being compacted is a record rec: type, top, hsr, the compaction
\* top ctop, its table (bot, threshold, index, pre_ok), the marked-byte
\* counters and TAMS, and as history the phases done and the objects each
\* phase's closure was applied to.  w is the heap around it: mem, bm (the
\* mark bitmap), queue and aborted.
is_pinned_type(type) == type \in {"OpenArchive", "ClosedArchive"}
is_humongous_type(type) == type \in {"StartsHumongous", "ContinuesHumongous"}

ClosureState(ab, w, rec) ==
  [mem |-> w.mem, bot |-> rec.bot, threshold |-> rec.threshold, index |-> rec.index,
   pre_ok |-> rec.pre_ok, ctop |-> rec.ctop, queue |-> w.queue, visited |-> <<>>,
   stop |-> NULLW, aborted |-> w.aborted, ab |-> ab]
RegionAfter(rec, st) ==
  [rec EXCEPT !.bot = st.bot, !.threshold = st.threshold, !.index = st.index,
              !.pre_ok = st.pre_ok, !.ctop = st.ctop]
HeapAfter(w, st, bm) ==
  [mem |-> st.mem, bm |-> bm, queue |-> st.queue, aborted |-> st.aborted]

\* history: where phase 1 sent each object it visited (an object that stays
\* has no forwarding address)
Destinations(st) ==
  [o \in {st.visited[i] : i \in DOMAIN st.visited} |->
     IF forwardee(st.mem, o) = NULLW THEN o ELSE forwardee(st.mem, o)]
Walked(w, rec, st, bm, phase) ==
  [w |-> HeapAfter(w, st, bm),
   rec |-> [RegionAfter(rec, st) EXCEPT
              !.phase = phase, !.stop = st.stop,
              !.visited1 = IF phase = 1 THEN st.visited ELSE @,
              !.visited2 = IF phase = 2 THEN st.visited ELSE @,
              !.visited3 = IF phase = 3 THEN st.visited ELSE @,
              !.dest = IF phase = 1 THEN Destinations(st) ELSE @]]

\* phase 1, G1SemeruSTWCompactTask::phase1_prepare_for_compact(hr): the
\* compaction point starts at the region's bottom with a fresh threshold and
\* every marked object below top is forwarded; a pinned or humongous region
\* is not prepared
phase1_prepare_for_compact(ab, w, rec, r) ==
  IF is_pinned_type(rec.type) \/ is_humongous_type(rec.type)
    THEN [w |-> w, rec |-> [rec EXCEPT !.phase = 1]]
    ELSE Walked(w, rec,
                apply_to_marked_objects(
                  "prepare",
                  [ClosureState(ab, w, rec) EXCEPT
                     !.ctop = HBottom(r),
                     !.threshold = initialize_threshold(r).threshold,
                     !.index = initialize_threshold(r).index],
                  w.bm, r, rec.top),
                w.bm, 1)

\* G1SemeruAdjustRegionClosure::do_heap_region(r)
G1SemeruAdjustRegionClosure_do_heap_region_old_only(ab, w, rec, r) ==
  IF is_humongous_type(rec.type)
    THEN Walked(w, rec,
                adjust_fields(Visit(ClosureState(ab, w, rec), HBottom(rec.hsr)),
                              oop_fields(w.mem, HBottom(rec.hsr), HBottom(r), rec.top), r),
                w.bm, 2)
  ELSE IF is_pinned_type(rec.type)
    THEN [w |-> w, rec |-> [rec EXCEPT !.phase = 2]]
    ELSE Walked(w, rec,
                apply_to_marked_objects("adjust", ClosureState(ab, w, rec), w.bm, r, rec.top),
                w.bm, 2)
G1SemeruAdjustRegionClosure_do_heap_region(ab, w, rec, r) ==
  IF is_humongous_type(rec.type)
    THEN Walked(w, rec,
                adjust_fields(Visit(ClosureState(ab, w, rec), HBottom(rec.hsr)),
                              oop_fields(w.mem, HBottom(rec.hsr), HBottom(r), rec.top), r),
                w.bm, 2)
    ELSE Walked(w, rec,
                apply_to_marked_objects("adjust", ClosureState(ab, w, rec), w.bm, r, rec.top),
                IF rec.type = "OpenArchive" THEN clear_region(w.bm, r) ELSE w.bm, 2)

\* ZapUnusedHeapArea is a develop flag: on in a build with ASSERT unless the
\* command line turns it off, and constant false in a product build
ZapUnusedHeapArea(ab) == ab

\* SpaceMangler::mangle_region(MemRegion(top(), end())): every word of
\* [top, end) becomes badHeapWordVal (0xBAADBABE), so what was an object header
\* there is one no more
badHeapWordVal == 0 - 2
mangle_unused_area(mem, top_, r) ==
  [x \in DOMAIN mem |->
     IF x >= top_ /\ x < HEnd(r)
       THEN [mark |-> badHeapWordVal, size |-> 0, ref |-> badHeapWordVal,
             body |-> badHeapWordVal, ok |-> FALSE]
       ELSE mem[x]]

\* SemeruHeapRegion::complete_compaction(): reset_after_compaction() moves top
\* to the compaction top; the table is reset when the region is left empty;
\* the marking data are reset; the unused area is mangled under
\* ZapUnusedHeapArea
complete_compaction_keep_top(ab, mem, rec, r) ==
  [mem |-> mem, rec |-> init_top_at_mark_start(zero_marked_bytes(rec), r)]
complete_compaction(ab, mem, rec, r) ==
  LET r1 == [rec EXCEPT !.top = rec.ctop]
      s == reset_bot_of(r1.bot, r)
      r2 == IF r1.top = HBottom(r)
              THEN [r1 EXCEPT !.bot = s.bot, !.threshold = s.threshold,
                              !.index = s.index, !.pre_ok = s.pre_ok]
              ELSE r1
  IN [mem |-> IF ZapUnusedHeapArea(ab) THEN mangle_unused_area(mem, r2.top, r) ELSE mem,
      rec |-> init_top_at_mark_start(zero_marked_bytes(r2), r)]

\* G1FullGCCompactTask::compact_region(hr)
Completed(ab, res, r) ==
  LET c == complete_compaction(ab, res.w.mem, res.rec, r)
  IN [w |-> [res.w EXCEPT !.mem = c.mem], rec |-> c.rec]
compact_region(ab, w, rec, r) ==
  Completed(
    ab,
    Walked(w, rec,
           apply_to_marked_objects(
             "compact",
             [ClosureState(ab, w, rec) EXCEPT
                !.aborted = w.aborted \/ (ab /\ is_humongous_type(rec.type))],
             w.bm, r, rec.top),
           clear_region(w.bm, r), 3),
    r)

\* ---- a region as the mutator and the marking left it ---------------------
\* A layout is the sequence of the objects allocated in a region, each with
\* its size and whether the marking found it live.
ObjKinds == [size : CompactSizes, marked : BOOLEAN]
Layouts(kinds, n) == UNION {[1..k -> kinds] : k \in 0..n}

RECURSIVE LayoutStart(_, _, _)
LayoutStart(lay, base, i) ==
  IF i = 1 THEN base ELSE LayoutStart(lay, base, i - 1) + lay[i - 1].size
LayoutTop(lay, base) == LayoutStart(lay, base, Len(lay) + 1)
LayoutMarks(lay, base) == {LayoutStart(lay, base, i) : i \in {k \in DOMAIN lay : lay[k].marked}}

\* the heap of a layout: refs[i] is what the reference field of object i holds
LayoutMem(lay, base, refs) ==
  [x \in {LayoutStart(lay, base, i) : i \in DOMAIN lay} |->
     LET i == CHOOSE k \in DOMAIN lay : x = LayoutStart(lay, base, k)
     IN [mark |-> NULLW, size |-> lay[i].size, ref |-> refs[i], body |-> x, ok |-> TRUE]]

\* the table as the allocations of the layout's objects left it
RECURSIVE LayoutBot(_, _, _, _)
LayoutBot(lay, base, i, b) ==
  IF i > Len(lay) THEN b
  ELSE LayoutBot(lay, base, i + 1,
                 alloc_block(b.bot, b.threshold, b.index, b.pre_ok,
                             LayoutStart(lay, base, i),
                             LayoutStart(lay, base, i) + lay[i].size))
CardSet(r) == index_for(HBottom(r))..(index_for(HEnd(r)) - 1)

\* every object refers to the next one of its region (the last to the first),
\* or holds no reference; a live object refers to live objects only
NextRefs(lay, base, on) ==
  [i \in DOMAIN lay |->
     LET j == (i % Len(lay)) + 1
     IN IF on /\ (lay[i].marked => lay[j].marked) THEN LayoutStart(lay, base, j)
        ELSE NULLW]

RECURSIVE LayoutLiveWords(_, _)
LayoutLiveWords(lay, i) ==
  IF i > Len(lay) THEN 0
  ELSE (IF lay[i].marked THEN lay[i].size ELSE 0) + LayoutLiveWords(lay, i + 1)

CRegionInit(r, type, hsr, lay) ==
  LET b == LayoutBot(lay, HBottom(r), 1, reset_bot_of([c \in CardSet(r) |-> 0], r))
  IN [type |-> type, top |-> LayoutTop(lay, HBottom(r)), hsr |-> hsr,
      ctop |-> HBottom(r), bot |-> b.bot, threshold |-> b.threshold,
      index |-> b.index, pre_ok |-> b.pre_ok,
      prev_marked |-> 0, next_marked |-> LayoutLiveWords(lay, 1) * HeapWordSize,
      prev_tams |-> HBottom(r), next_tams |-> LayoutTop(lay, HBottom(r)),
      phase |-> 0, visited1 |-> <<>>, visited2 |-> <<>>, visited3 |-> <<>>,
      stop |-> NULLW, dest |-> <<>>, worker |-> 0, times |-> 0]

\* the blocks of a region after the heap was parsed from its bottom
RECURSIVE BlocksFrom(_, _, _)
BlocksFrom(mem, a, limit) ==
  IF a >= limit \/ a \notin DOMAIN mem THEN {}
  ELSE {[start |-> a, size |-> obj_size(mem, a)]} \cup BlocksFrom(mem, a + obj_size(mem, a), limit)


\* ---- one region compacted: calculate, adjust, compact -------------------
\* The region is region hrm_index, whose top, table and blocks are the
\* variables of Part 2, so that block_start looks the compacted region up.
\* up to MaxObjs live objects, each with or without a dead object before it,
\* and with or without a dead object after the last
LiveKinds == [size : CompactSizes, gap : BOOLEAN]
Dead == [size |-> GapWords, marked |-> FALSE]
RECURSIVE Expand(_, _, _)
Expand(es, i, tail) ==
  IF i > Len(es) THEN (IF tail THEN <<Dead>> ELSE <<>>)
  ELSE (IF es[i].gap THEN <<Dead>> ELSE <<>>)
       \o <<[size |-> es[i].size, marked |-> TRUE]>> \o Expand(es, i + 1, tail)
CompactLayouts ==
  {lay \in {Expand(es, 1, tail) : es \in Layouts(LiveKinds, MaxObjs), tail \in BOOLEAN} :
     LayoutTop(lay, bottom) <= end}

RegionView(rec, mem) ==
  /\ top' = rec.top
  /\ bot' = rec.bot
  /\ bot_threshold' = rec.threshold
  /\ bot_index' = rec.index
  /\ bot_pre_ok' = rec.pre_ok
  /\ objs' = BlocksFrom(mem, bottom, rec.top)

\* marks an earlier cycle left at or above top: none, or one at top when the
\* layout ends with a live object below the region's end
StaleMarks(lay) ==
  IF Len(lay) > 0 /\ lay[Len(lay)].marked /\ LayoutTop(lay, bottom) < end
    THEN {{}, {LayoutTop(lay, bottom)}}
    ELSE {{}}

\* the build is the one that compiles the asserts in: C26 shows that none of
\* them fails, so the other build behaves the same
CompactInit ==
  /\ STSInit /\ ThreadsInit
  /\ assert_build = TRUE
  /\ HrStart(0, HRegions) /\ RdmaIdle /\ ArIdle
  /\ last = [op |-> "initialize", min |-> 0, desired |-> 0, res |-> NULLW,
             actual |-> 0, top0 |-> bottom, def |-> TRUE]
  /\ nops = 0
  /\ \E lay \in CompactLayouts : \E stale \in StaleMarks(lay) :
       LET rec == CRegionInit(hrm_index, "Old", NULLW, lay)
           mem == LayoutMem(lay, bottom, NextRefs(lay, bottom, TRUE))
       IN /\ c_mem = mem
          /\ c_bitmap = LayoutMarks(lay, bottom) \cup stale
          /\ c_queue = {}
          /\ c_reg = [r \in {hrm_index} |-> rec]
          /\ c_run = [before |-> [mem |-> mem, bm |-> LayoutMarks(lay, bottom),
                                  stale |-> stale,
                                  top |-> [r \in {hrm_index} |-> rec.top]]]
          /\ top = rec.top
          /\ bot = rec.bot
          /\ bot_threshold = rec.threshold
          /\ bot_index = rec.index
          /\ bot_pre_ok = rec.pre_ok
          /\ objs = BlocksFrom(mem, bottom, rec.top)

Heap == [mem |-> c_mem, bm |-> c_bitmap, queue |-> c_queue, aborted |-> FALSE]

\* what a phase leaves: the heap, the region and whether the process aborted
PhaseDone(r, res) ==
  /\ c_mem' = res.w.mem
  /\ c_bitmap' = res.w.bm
  /\ c_queue' = res.w.queue
  /\ c_reg' = [c_reg EXCEPT ![r] = res.rec]
  /\ hr_aborted' = res.w.aborted

CPhaseDone(res) == PhaseDone(hrm_index, res) /\ RegionView(res.rec, res.w.mem)

CPrepare ==
  /\ ~hr_aborted /\ c_reg[hrm_index].phase = 0
  /\ CPhaseDone(phase1_prepare_for_compact(assert_build, Heap, c_reg[hrm_index], hrm_index))
  /\ UNCHANGED <<stsVars, thrVars, last, nops, assert_build, hrVars, rdmaVars, arVars, c_run>>

CAdjust ==
  /\ ~hr_aborted /\ c_reg[hrm_index].phase = 1
  /\ CPhaseDone(G1SemeruAdjustRegionClosure_do_heap_region(
                  assert_build, Heap, c_reg[hrm_index], hrm_index))
  /\ UNCHANGED <<stsVars, thrVars, last, nops, assert_build, hrVars, rdmaVars, arVars, c_run>>

CCompact ==
  /\ ~hr_aborted /\ c_reg[hrm_index].phase = 2
  /\ CPhaseDone(compact_region(assert_build, Heap, c_reg[hrm_index], hrm_index))
  /\ UNCHANGED <<stsVars, thrVars, last, nops, assert_build, hrVars, rdmaVars, arVars, c_run>>

CompactNext == CPrepare \/ CAdjust \/ CCompact
SpecCompact == CompactInit /\ [][CompactNext]_vars

\* ========================================================================
\* Part 7: the stop-the-world compaction by a gang of workers
\*
\* Each worker has a compaction point with its own regions.  It takes them
\* one at a time through phases 1 to 3, then waits for the other workers and
\* runs phase 4 on the fields phase 2 recorded for its regions.  The flag
\* _has_aborted (g1SemeruSTWCompact.hpp:113) has a getter and nothing else: no
\* code sets it and none tests it, so a run of the gang is not cut short here.
\* ========================================================================
CWorkers == 2                     \* workers of the compaction gang
NumCRegions == 3                  \* regions in the memory server's collection set
CGang == 1..CWorkers
CRegs == 1..NumCRegions

SmallLive == [size |-> HeaderWords + 1, marked |-> TRUE]
SmallLayouts == {<<SmallLive>>, <<Dead, SmallLive>>, <<SmallLive, Dead, SmallLive>>,
                 <<Dead, SmallLive, SmallLive>>}
CTypes == {"Old", "OpenArchive", "ClosedArchive"}
RefModes == {"none", "mixed", "cross"}

\* the regions of worker w's compaction point: the policy deals the regions
\* out to the workers in turn before the gang starts
compaction_point(w) == {r \in CRegs : ((r - 1) % CWorkers) + 1 = w}

\* what the reference field of object i of region r holds: nothing, or the
\* first live object of the next region, or that for all objects but the first
\* live one, which refers to the next object of its region; an object of a
\* closed archive region refers to closed archive objects only
NextRegion(r) == (r % NumCRegions) + 1
CrossRefs(lay, r, types) ==
  [i \in DOMAIN lay |->
     IF types[r] = "ClosedArchive" /\ types[NextRegion(r)] # "ClosedArchive"
       THEN NULLW
       ELSE LayoutStart(lay, HBottom(NextRegion(r)),
                        CHOOSE k \in DOMAIN lay : lay[k].marked
                                                  /\ \A j \in 1..(k - 1) : ~lay[j].marked)]
RegionRefs(lay, r, types, mode) ==
  CASE mode = "none" -> NextRefs(lay, HBottom(r), FALSE)
    [] mode = "mixed" ->
         [i \in DOMAIN lay |->
            IF lay[i].marked /\ \A j \in 1..(i - 1) : ~lay[j].marked
              THEN NextRefs(lay, HBottom(r), TRUE)[i]
              ELSE CrossRefs(lay, r, types)[i]]
    [] mode = "cross" -> CrossRefs(lay, r, types)

\* every region holds the same layout; one region has type t, the others are old
GangHeap(lay, types, mode) ==
  [x \in UNION {DOMAIN LayoutMem(lay, HBottom(r), RegionRefs(lay, r, types, mode)) : r \in CRegs} |->
     LayoutMem(lay, HBottom(addr_to_region(x)),
               RegionRefs(lay, addr_to_region(x), types, mode))[x]]

GangInit ==
  /\ STSInit /\ RegionInit /\ ThreadsInit
  /\ assert_build = TRUE
  /\ HrStart(0, HRegions) /\ RdmaIdle /\ ArIdle
  /\ \E lay \in SmallLayouts, s \in CRegs, t \in CTypes, mode \in RefModes :
       LET types == [r \in CRegs |-> IF r = s THEN t ELSE "Old"]
           mem == GangHeap(lay, types, mode)
           bm == UNION {LayoutMarks(lay, HBottom(r)) : r \in CRegs}
       IN /\ c_mem = mem
          /\ c_bitmap = bm
          /\ c_queue = {}
          /\ c_reg = [r \in CRegs |-> CRegionInit(r, types[r], NULLW, lay)]
          /\ c_run = [before |-> [mem |-> mem, bm |-> bm, stale |-> {},
                                  top |-> [r \in CRegs |-> LayoutTop(lay, HBottom(r))]],
                      pc |-> [w \in CGang |-> "claim"],
                      cur |-> [w \in CGang |-> 0],
                      returned |-> FALSE,
                      fixed |-> {}]

\* G1SemeruSTWCompact::claim_region_for_comapct(worker_id, prev): the regions
\* of the worker's compaction point not yet taken
claim_region_for_comapct_any(w) == {r \in CRegs : c_reg[r].phase = 0}
claim_region_for_comapct(w) == {r \in compaction_point(w) : c_reg[r].phase = 0}

\* phase 3, G1SemeruSTWCompactTask::phase3_compact_region(hr): a pinned
\* region is not compacted
phase3_compact_region(ab, w, rec, r) ==
  IF is_pinned_type(rec.type) THEN [w |-> w, rec |-> [rec EXCEPT !.phase = 3]]
  ELSE compact_region(ab, w, rec, r)

\* phase 4 may start once no worker is still taking regions through phases 1-3
phase4_may_start_alone(run, w) == run.pc[w] = "barrier"
phase4_may_start(run, w) ==
  run.pc[w] = "barrier" /\ \A v \in CGang : run.pc[v] \in {"barrier", "p4done"}

Running(w) == ~hr_aborted /\ ~c_run.returned

GangIdle == UNCHANGED <<stsVars, regVars, thrVars, assert_build, hrVars, rdmaVars, arVars>>

\* the worker is between regions: it stops when its compaction point has no
\* region left, and else takes the next region
WClaim(w) ==
  /\ Running(w) /\ c_run.pc[w] = "claim"
  /\ IF claim_region_for_comapct(w) = {}
       THEN c_run' = [c_run EXCEPT !.pc[w] = "barrier"]
       ELSE \E r \in claim_region_for_comapct(w) :
              c_run' = [c_run EXCEPT !.pc[w] = "p1", !.cur[w] = r]
  /\ UNCHANGED <<c_mem, c_bitmap, c_queue, c_reg, hr_aborted>>
  /\ GangIdle

\* a phase on the worker's current region; the region records who ran it
GangPhaseDone(w, res, pc) ==
  /\ PhaseDone(c_run.cur[w], res)
  /\ c_run' = [c_run EXCEPT !.pc[w] = pc]
  /\ GangIdle
ByWorker(rec, w) == [rec EXCEPT !.worker = w, !.times = @ + 1]

WPhase1(w) ==
  /\ Running(w) /\ c_run.pc[w] = "p1"
  /\ GangPhaseDone(w, phase1_prepare_for_compact(
                        assert_build, Heap, ByWorker(c_reg[c_run.cur[w]], w), c_run.cur[w]),
                   "p2")

WPhase2(w) ==
  /\ Running(w) /\ c_run.pc[w] = "p2"
  /\ GangPhaseDone(w, G1SemeruAdjustRegionClosure_do_heap_region(
                        assert_build, Heap, c_reg[c_run.cur[w]], c_run.cur[w]),
                   "p3")

WPhase3(w) ==
  /\ Running(w) /\ c_run.pc[w] = "p3"
  /\ GangPhaseDone(w, phase3_compact_region(
                        assert_build, Heap, c_reg[c_run.cur[w]], c_run.cur[w]),
                   "claim")

\* phase 4, G1SemeruSTWCompactTask::phase4_inter_region_pointer(): the worker
\* takes the recorded fields of its regions off the queue.  What it stores in
\* them is not modelled.
WPhase4(w) ==
  /\ Running(w) /\ phase4_may_start(c_run, w)
  /\ c_queue' = {p \in c_queue : addr_to_region(p) \notin compaction_point(w)}
  /\ c_run' = [c_run EXCEPT !.pc[w] = "p4done",
                            !.fixed = @ \cup {p \in c_queue : addr_to_region(p) \in compaction_point(w)}]
  /\ UNCHANGED <<c_mem, c_bitmap, c_reg, hr_aborted>>
  /\ GangIdle

\* G1SemeruSTWCompact::semeru_stw_compact() returns when the gang is done
GangReturn ==
  /\ ~hr_aborted /\ ~c_run.returned
  /\ \A w \in CGang : c_run.pc[w] = "p4done"
  /\ c_run' = [c_run EXCEPT !.returned = TRUE]
  /\ UNCHANGED <<c_mem, c_bitmap, c_queue, c_reg, hr_aborted>>
  /\ GangIdle

GangNext ==
  \/ \E w \in CGang : WClaim(w)
  \/ \E w \in CGang : WPhase1(w)
  \/ \E w \in CGang : WPhase2(w)
  \/ \E w \in CGang : WPhase3(w)
  \/ \E w \in CGang : WPhase4(w)
  \/ GangReturn
SpecGang == GangInit /\ [][GangNext]_vars

\* ========================================================================
\* Part 8: G1AllocRegion, the allocation region of the mutators
\*   (the inline functions at the end of g1SemeruSTWCompact.hpp).  The
\*   regions have the geometry of Part 2; region 0 is the dummy region, which
\*   is full.  _bot_updates is false, as for a mutator alloc region, so an
\*   allocation moves a region's top and nothing else.
\* ========================================================================
NumArRegions == 2   \* regions the policy can hand out
ArMaxOps == 4       \* allocation calls per run
ArRegions == 1..NumArRegions
DummyRegion == 0
ArUnset == 0 - 1    \* *actual_word_size before anything was stored in it
ArArgs == {<<1, 9>>,
           <<(3 * GrainWords) \div 8, (9 * GrainWords) \div 16>>,
           <<(9 * GrainWords) \div 16, (9 * GrainWords) \div 16>>,
           <<GrainWords \div 5, GrainWords>>}

\* G1AllocRegion::par_allocate(alloc_region, min, desired, &actual)
G1AllocRegion_par_allocate_result(st, alloc_region, actual, r) ==
  [st |-> [st EXCEPT !.top[alloc_region] = r.top],
   res |-> r.res,
   actual |-> IF r.res # NULLW THEN r.actual ELSE actual,
   pre |-> st.top[alloc_region] > bottom,
   path |-> IF r.res # NULLW THEN "first" ELSE "failed"]
G1AllocRegion_par_allocate(st, alloc_region, min_word_size, desired_word_size, actual) ==
  G1AllocRegion_par_allocate_result(st, alloc_region, actual,
    par_allocate_impl_alone(st.top[alloc_region], min_word_size, desired_word_size))

\* G1AllocRegion::attempt_allocation(min, desired, &actual)
attempt_allocation(st, min_word_size, desired_word_size, actual) ==
  G1AllocRegion_par_allocate(st, st.alloc_region, min_word_size, desired_word_size, actual)

\* G1AllocRegion::retire(fill_up): the current region, unless it is the dummy
\* region, is filled up and given back; the dummy region takes its place
retire(st, fill_up) ==
  IF st.alloc_region = DummyRegion THEN st
  ELSE [st EXCEPT !.top[st.alloc_region] = IF fill_up THEN end ELSE @,
                  !.alloc_region = DummyRegion]

\* G1AllocRegion::new_alloc_region_and_allocate(word_size, force): n is the
\* region the policy hands out, or NULLW when it has none; the request is
\* allocated in the new region before it becomes the current one.  The
\* function asserts that the dummy region is the current one.
new_alloc_region_and_allocate(st, word_size, force, n) ==
  IF n = NULLW THEN [st |-> st, res |-> NULLW, pre |-> st.alloc_region = DummyRegion]
  ELSE [st |-> [st EXCEPT !.top[n] = bottom + word_size,
                          !.alloc_region = n,
                          !.free = @ \ {n}],
        res |-> bottom, pre |-> st.alloc_region = DummyRegion]

\* the second attempt of attempt_allocation_locked
second_attempt(first, desired_word_size, second) ==
  IF second.res # NULLW
    THEN [st |-> second.st, res |-> second.res, actual |-> desired_word_size,
          pre |-> first.pre, path |-> "second"]
    ELSE [st |-> second.st, res |-> NULLW, actual |-> first.actual,
          pre |-> first.pre, path |-> "failed"]
locked_after(first, desired_word_size, n) ==
  IF first.res # NULLW THEN first
  ELSE second_attempt(first, desired_word_size,
         new_alloc_region_and_allocate(retire(first.st, TRUE), desired_word_size, FALSE, n))

\* G1AllocRegion::attempt_allocation_locked(min, desired, &actual)
attempt_allocation_locked_no_retry(st, min_word_size, desired_word_size, actual, n) ==
  second_attempt([st |-> st, res |-> NULLW, actual |-> actual, pre |-> TRUE, path |-> "failed"],
                 desired_word_size,
                 new_alloc_region_and_allocate(retire(st, TRUE), desired_word_size, FALSE, n))
attempt_allocation_locked(st, min_word_size, desired_word_size, actual, n) ==
  locked_after(attempt_allocation(st, min_word_size, desired_word_size, actual),
               desired_word_size, n)

\* G1AllocRegion::attempt_allocation_force(word_size): a new region is asked
\* for and made the current one; the current region is not retired.  In a
\* build with ASSERT the process ends when the current region is not the
\* dummy region.
attempt_allocation_force(ab, st, word_size, n) ==
  LET o == new_alloc_region_and_allocate(st, word_size, TRUE, n)
  IN IF ab /\ ~o.pre
       THEN [st |-> st, res |-> NULLW, actual |-> ArUnset, pre |-> FALSE,
             path |-> "failed"]
       ELSE [st |-> o.st, res |-> o.res, actual |-> ArUnset, pre |-> o.pre,
             path |-> IF o.res # NULLW THEN "forced" ELSE "failed"]

\* MutatorAllocRegion::attempt_retained_allocation(min, desired, &actual):
\* par_allocate in the retained region, when there is one
attempt_retained_allocation(st, min_word_size, desired_word_size, actual) ==
  IF st.retained # NULLW
    THEN LET o == G1AllocRegion_par_allocate(st, st.retained, min_word_size,
                                             desired_word_size, actual)
         IN [o EXCEPT !.path = IF o.res # NULLW THEN "retained" ELSE "failed"]
    ELSE [st |-> st, res |-> NULLW, actual |-> actual, pre |-> TRUE,
          path |-> "failed"]

\* The alloc region as init() leaves it, the dummy region current.  The
\* mutator alloc region may hold a retained region: a region that an earlier
\* retire() kept, part full, when it stopped being the current one.
RetainedTop == bottom + (5 * GrainWords) \div 8
AllocRegionInit ==
  /\ STSInit /\ RegionInit /\ ThreadsInit
  /\ assert_build \in BOOLEAN
  /\ HrStart(0, HRegions) /\ RdmaIdle /\ CmpIdle
  /\ sts_time = <<>>
  /\ \E retained \in {NULLW} \cup ArRegions :
       g1ar = [alloc_region |-> DummyRegion,
               retained |-> retained,
               top |-> [r \in {DummyRegion} \cup ArRegions |->
                          IF r = DummyRegion THEN end
                          ELSE IF r = retained THEN RetainedTop
                          ELSE bottom],
               free |-> ArRegions \ {retained},
               left |-> ArMaxOps,
               last |-> [op |-> "none"]]

ArDone(op, a, n, o) ==
  /\ g1ar' = [o.st EXCEPT !.left = @ - 1,
                          !.last = [op |-> op, min |-> a[1], desired |-> a[2],
                                    res |-> o.res, actual |-> o.actual, path |-> o.path,
                                    granted |-> n,
                                    before |-> [alloc_region |-> g1ar.alloc_region,
                                                top |-> g1ar.top]]]
  /\ hr_aborted' = (assert_build /\ ~o.pre)
  /\ UNCHANGED <<stsVars, regVars, thrVars, assert_build, hrVars, rdmaVars, cmpVars, sts_time>>

ArEnabled == ~hr_aborted /\ g1ar.left > 0

ArAttemptAllocation ==
  /\ ArEnabled
  /\ \E a \in ArArgs :
       ArDone("attempt_allocation", a, NULLW,
              attempt_allocation(g1ar, a[1], a[2], ArUnset))

ArAttemptAllocationLocked ==
  /\ ArEnabled
  /\ \E a \in ArArgs, n \in g1ar.free \cup {NULLW} :
       ArDone("attempt_allocation_locked", a, n,
              attempt_allocation_locked(g1ar, a[1], a[2], ArUnset, n))

ArAttemptAllocationForce ==
  /\ ArEnabled
  /\ \E a \in ArArgs, n \in g1ar.free \cup {NULLW} :
       ArDone("attempt_allocation_force", <<a[2], a[2]>>, n,
              attempt_allocation_force(assert_build, g1ar, a[2], n))

ArAttemptRetainedAllocation ==
  /\ ArEnabled
  /\ \E a \in ArArgs :
       ArDone("attempt_retained_allocation", a, NULLW,
              attempt_retained_allocation(g1ar, a[1], a[2], ArUnset))

AllocRegionNext ==
  \/ ArAttemptAllocation
  \/ ArAttemptAllocationLocked
  \/ ArAttemptAllocationForce
  \/ ArAttemptRetainedAllocation
SpecAllocRegion == AllocRegionInit /\ [][AllocRegionNext]_vars

\* ========================================================================
\* Part 9: the suspendible thread set with ConcGCYieldTimeout
\*   (src/unnamed/part_000:201-242).  Time is os::elapsedTime() in
\*   milliseconds.  join, the resumed yield, the locked block of
\*   synchronize, its semaphore wait and desynchronize read no clock: the
\*   actions of Part 1 are these functions with the flag set as well.
\* ========================================================================
MaxTime == 3              \* the clock stops here
YieldTimeouts == {0, 2}   \* values of the flag ConcGCYieldTimeout

\* guarantee((now - _suspend_all_start) * 1000.0 < (double)ConcGCYieldTimeout)
long_delay(t) == t.timeout > 0 /\ ~(t.now - t.start < t.timeout)

TimedSTSInit ==
  /\ STSInit /\ RegionInit /\ ThreadsInit
  /\ assert_build = FALSE /\ HrStart(0, HRegions) /\ RdmaIdle /\ CmpIdle /\ g1ar = <<>>
  /\ \E f \in YieldTimeouts : sts_time = [now |-> 0, start |-> 0, timeout |-> f, done |-> "none", late |-> FALSE]

TimedFrame == UNCHANGED <<regVars, thrVars, assert_build, hrVars, rdmaVars, g1ar, cmpVars>>

\* history: which function completed the request, and whether the bound had
\* passed when it did
Completed_by(t, f) ==
  [t EXCEPT !.done = f, !.late = t.timeout > 0 /\ t.now - t.start >= t.timeout]

\* the clock advances
Tick ==
  /\ ~hr_aborted /\ sts_time.now < MaxTime
  /\ sts_time' = [sts_time EXCEPT !.now = @ + 1]
  /\ UNCHANGED <<stsVars, hr_aborted>>
  /\ TimedFrame

\* synchronize(): entry; _suspend_all_start is set when the flag is
TSynchronizeCall ==
  /\ ~hr_aborted /\ vm_pc = "idle"
  /\ vm_pc' = "sync_call"
  /\ sts_signals' = 0
  /\ sts_waited' = FALSE
  /\ sts_time' = [sts_time EXCEPT
                    !.start = IF sts_time.timeout > 0 THEN sts_time.now ELSE @,
                    !.done = "none", !.late = FALSE]
  /\ UNCHANGED <<sts_nthreads, sts_stopped, sts_suspend_all, sts_sem, sts_pc, hr_aborted>>
  /\ TimedFrame

\* yield() up to its first wait(): the thread completing the request tests
\* the delay before it signals
TYield(t) ==
  /\ ~hr_aborted /\ sts_pc[t] = "in"
  /\ IF sts_suspend_all
       THEN /\ sts_stopped' = sts_stopped + 1
            /\ IF yield_completes(sts_stopped + 1, sts_nthreads)
                 THEN /\ sts_time' = Completed_by(sts_time, "yield")
                      /\ IF long_delay(sts_time)
                           THEN /\ hr_aborted' = TRUE
                                /\ UNCHANGED <<sts_sem, sts_signals, sts_pc>>
                           ELSE /\ sts_sem' = sts_sem + 1
                                /\ sts_signals' = sts_signals + 1
                                /\ sts_pc' = [sts_pc EXCEPT ![t] = "yield_wait"]
                                /\ UNCHANGED hr_aborted
                 ELSE /\ sts_pc' = [sts_pc EXCEPT ![t] = "yield_wait"]
                      /\ UNCHANGED <<sts_sem, sts_signals, hr_aborted, sts_time>>
       ELSE UNCHANGED <<sts_stopped, sts_sem, sts_signals, sts_pc, hr_aborted, sts_time>>
  /\ UNCHANGED <<sts_nthreads, sts_suspend_all, vm_pc, sts_waited>>
  /\ TimedFrame

\* leave(): it reads no clock
TLeave(t) ==
  /\ ~hr_aborted /\ sts_pc[t] = "in"
  /\ sts_nthreads' = sts_nthreads - 1
  /\ sts_pc' = [sts_pc EXCEPT ![t] = "out"]
  /\ IF leave_completes(sts_suspend_all, sts_stopped, sts_nthreads - 1)
       THEN /\ sts_sem' = sts_sem + 1
            /\ sts_signals' = sts_signals + 1
            /\ sts_time' = Completed_by(sts_time, "leave")
       ELSE UNCHANGED <<sts_sem, sts_signals, sts_time>>
  /\ UNCHANGED <<sts_stopped, sts_suspend_all, vm_pc, sts_waited, hr_aborted>>
  /\ TimedFrame

TJoin(t) == ~hr_aborted /\ Join(t)
TJoinResume(t) == ~hr_aborted /\ JoinResume(t)
TYieldResume(t) == ~hr_aborted /\ YieldResume(t)
TSynchronizeLocked == ~hr_aborted /\ SynchronizeLocked
TSynchronizeWakeup == ~hr_aborted /\ SynchronizeWakeup
TDesynchronize == ~hr_aborted /\ Desynchronize

TimedSTSNext ==
  \/ Tick
  \/ TSynchronizeCall
  \/ \E t \in Workers : TYield(t)
  \/ \E t \in Workers : TJoin(t)
  \/ \E t \in Workers : TJoinResume(t)
  \/ \E t \in Workers : TLeave(t)
  \/ \E t \in Workers : TYieldResume(t)
  \/ TSynchronizeLocked
  \/ TSynchronizeWakeup
  \/ TDesynchronize
SpecSTSTimeout == TimedSTSInit /\ [][TimedSTSNext]_vars

\* ========================================================================
\* Part 10: G1FullGCCompactTask::work and serial_compaction, the compaction
\*   and the humongous regions.  Each worker compacts the regions of its
\*   compaction queue and then walks the heap's regions with
\*   G1ResetHumongousClosure, a claimer giving each region to one worker;
\*   serial_compaction compacts the regions of the serial compaction point.
\*   One region holds a humongous object
\*   that ends in it; when the marking found the object dead the region has
\*   been freed before the compaction.  The objects of the other regions hold
\*   no references.  Of a header the model keeps what it decodes to, NULL for
\*   the prototype.
\* ========================================================================
HumongousSizes == {GrainWords \div 2 + 1, GrainWords}
MaxSerial == 1                    \* regions on the serial compaction point
HumongousHeaders(obj) == {NULLW, obj}

FcTypes(s, live) ==
  [r \in CRegs |-> IF r # s THEN "Old" ELSE IF live THEN "StartsHumongous" ELSE "Free"]
FcLayout(lay, s, live, hsize, r) ==
  IF r # s THEN lay
  ELSE IF live THEN <<[size |-> hsize, marked |-> TRUE]>>
  ELSE <<>>
FcRegionMem(lay, s, live, hsize, r) ==
  LET l == FcLayout(lay, s, live, hsize, r)
  IN LayoutMem(l, HBottom(r), NextRefs(l, HBottom(r), FALSE))
FcHeap(lay, s, live, hsize, hdr) ==
  [x \in UNION {DOMAIN FcRegionMem(lay, s, live, hsize, r) : r \in CRegs} |->
     IF x = HBottom(s)
       THEN [FcRegionMem(lay, s, live, hsize, s)[x] EXCEPT !.mark = hdr]
       ELSE FcRegionMem(lay, s, live, hsize, addr_to_region(x))[x]]

\* the regions the preparation puts on a compaction point: those that are
\* neither humongous nor pinned
Compactible(types) ==
  {r \in CRegs : ~is_humongous_type(types[r]) /\ ~is_pinned_type(types[r])}

FullCompactInit ==
  /\ STSInit /\ RegionInit /\ ThreadsInit
  /\ assert_build \in BOOLEAN
  /\ HrStart(0, HRegions) /\ RdmaIdle /\ ArIdle
  /\ \E lay \in SmallLayouts, s \in CRegs, live \in BOOLEAN, hsize \in HumongousSizes :
     \E hdr \in HumongousHeaders(HBottom(s)), ser \in SUBSET Compactible(FcTypes(s, live)) :
       LET types == FcTypes(s, live)
           mem == FcHeap(lay, s, live, hsize, hdr)
           bm == UNION {LayoutMarks(FcLayout(lay, s, live, hsize, r), HBottom(r)) : r \in CRegs}
           regs == [r \in CRegs |->
                      CRegionInit(r, types[r], IF types[r] = "StartsHumongous" THEN r ELSE NULLW,
                                  FcLayout(lay, s, live, hsize, r))]
       IN /\ c_mem = mem
          /\ c_bitmap = bm
          /\ Cardinality(ser) <= MaxSerial
          /\ c_queue = {}
          /\ c_reg = regs
          /\ c_run = [before |-> [mem |-> mem, bm |-> bm, stale |-> {},
                                  top |-> [r \in CRegs |-> regs[r].top]],
                      pc |-> [w \in CGang |-> "compact"],
                      serial |-> ser,
                      it |-> [w \in CGang |-> 0],
                      claimed |-> {},
                      passed |-> {},
                      reset |-> {}]

\* collector()->serial_compaction_point()->regions(): the regions the
\* preparation moved from the workers' queues to the serial compaction point
serial_compaction_queue == c_run.serial

\* collector()->compaction_point(worker_id)->regions(): the preparation puts
\* the regions that are neither humongous nor pinned on the workers' queues
compaction_queue_all(w) == compaction_point(w) \ serial_compaction_queue
compaction_queue(w) ==
  {r \in compaction_point(w) \ serial_compaction_queue :
     ~is_humongous_type(c_reg[r].type) /\ ~is_pinned_type(c_reg[r].type)}

\* HeapRegion::reset_during_compaction()
reset_during_compaction(rec, r) == init_top_at_mark_start(zero_marked_bytes(rec), r)

\* G1ResetHumongousClosure::do_heap_region(current)
G1ResetHumongousClosure_do_heap_region_keep_header(ab, w, rec, r) ==
  LET obj == HBottom(r)
      live == is_starts_humongous(rec) /\ is_marked(w.bm, obj)
  IN IF ~is_humongous_type(rec.type) THEN [w |-> w, rec |-> rec]
     ELSE [w |-> [w EXCEPT
                    !.bm = IF live THEN @ \ {obj} ELSE @,
                    !.aborted = @ \/ (ab /\ is_starts_humongous(rec) /\ ~live
                                         /\ rec.top # HBottom(r))],
           rec |-> reset_during_compaction(rec, r)]
G1ResetHumongousClosure_do_heap_region(ab, w, rec, r) ==
  LET obj == HBottom(r)
      live == is_starts_humongous(rec) /\ is_marked(w.bm, obj)
  IN IF ~is_humongous_type(rec.type) THEN [w |-> w, rec |-> rec]
     ELSE [w |-> [w EXCEPT
                    !.bm = IF live THEN @ \ {obj} ELSE @,
                    !.mem = IF live THEN init_mark_raw(@, obj) ELSE @,
                    !.aborted = @ \/ (ab /\ is_starts_humongous(rec) /\ ~live
                                         /\ rec.top # HBottom(r))],
           rec |-> reset_during_compaction(rec, r)]

\* the preparation that ran before the task: the regions of the queues have
\* their objects forwarded
FcQueued == serial_compaction_queue \cup UNION {compaction_queue(w) : w \in CGang}
FcPrepared == \A r \in FcQueued : c_reg[r].phase >= 1
FPrepare ==
  /\ ~hr_aborted /\ ~FcPrepared
  /\ LET r == CHOOSE q \in FcQueued : c_reg[q].phase = 0
     IN PhaseDone(r, phase1_prepare_for_compact(assert_build, Heap, c_reg[r], r))
  /\ UNCHANGED c_run
  /\ GangIdle

\* G1FullGCCompactTask::work(worker_id), the loop over the compaction queue:
\* one region a step, in the order of the queue
FcLeft(w) == {r \in compaction_queue(w) : r \notin c_run.passed}
FCompact(w) ==
  /\ ~hr_aborted /\ FcPrepared /\ c_run.pc[w] = "compact"
  /\ IF FcLeft(w) = {}
       THEN /\ c_run' = [c_run EXCEPT !.pc[w] = "reset"]
            /\ UNCHANGED <<c_mem, c_bitmap, c_queue, c_reg, hr_aborted>>
       ELSE LET r == CHOOSE q \in FcLeft(w) : \A p \in FcLeft(w) : q <= p
            IN /\ PhaseDone(r, compact_region(assert_build, Heap, ByWorker(c_reg[r], w), r))
               /\ c_run' = [c_run EXCEPT !.passed = @ \cup {r}]
  /\ GangIdle

\* G1FullGCCompactTask::work(worker_id), heap_region_par_iterate_from_worker_offset:
\* the worker walks the regions from its offset and applies the closure to
\* those it claims
start_region(w) == ((w - 1) * NumCRegions) \div CWorkers
FReset(w) ==
  /\ ~hr_aborted /\ c_run.pc[w] = "reset"
  /\ IF c_run.it[w] = NumCRegions
       THEN /\ c_run' = [c_run EXCEPT !.pc[w] = "done"]
            /\ UNCHANGED <<c_mem, c_bitmap, c_queue, c_reg, hr_aborted>>
       ELSE LET r == ((start_region(w) + c_run.it[w]) % NumCRegions) + 1
            IN IF r \in c_run.claimed
                 THEN /\ c_run' = [c_run EXCEPT !.it[w] = @ + 1]
                      /\ UNCHANGED <<c_mem, c_bitmap, c_queue, c_reg, hr_aborted>>
                 ELSE /\ PhaseDone(r, G1ResetHumongousClosure_do_heap_region(
                                        assert_build, Heap, c_reg[r], r))
                      /\ c_run' = [c_run EXCEPT !.it[w] = @ + 1,
                                                !.claimed = @ \cup {r},
                                                !.reset = @ \cup {r}]
  /\ GangIdle

\* G1FullGCCompactTask::serial_compaction(): the loop over the queue of the
\* serial compaction point, one region a step, in the order of the queue; the
\* collector's thread runs it, which is no worker of the gang
SerialLeft == {r \in serial_compaction_queue : r \notin c_run.passed}
FSerialCompaction ==
  /\ ~hr_aborted /\ FcPrepared /\ SerialLeft # {}
  /\ LET r == CHOOSE q \in SerialLeft : \A p \in SerialLeft : q <= p
     IN /\ PhaseDone(r, compact_region(assert_build, Heap, ByWorker(c_reg[r], 0), r))
        /\ c_run' = [c_run EXCEPT !.passed = @ \cup {r}]
  /\ GangIdle

FullCompactNext ==
  \/ FPrepare
  \/ \E w \in CGang : FCompact(w)
  \/ FSerialCompaction
  \/ \E w \in CGang : FReset(w)
SpecFullCompact == FullCompactInit /\ [][FullCompactNext]_vars

\* ========================================================================
\* Specifications
\* ========================================================================
\* the suspendible thread set alone
STSSpecInit == STSInit /\ RegionInit /\ ThreadsInit /\ ExtIdle
SpecSTS == STSSpecInit /\ [][STSNext]_vars

\* Scheduling: a runnable thread holding no lock eventually runs; a joined
\* thread eventually reaches a yield point or leaves (the hypothesis of the
\* liveness claims).
STSFairness ==
  /\ WF_vars(SynchronizeLocked)
  /\ WF_vars(SynchronizeWakeup)
  /\ \A t \in Workers : WF_vars(Yield(t) \/ Leave(t))
  /\ \A t \in Workers : WF_vars(JoinResume(t))
  /\ \A t \in Workers : WF_vars(YieldResume(t))

SpecSTSFair == STSSpecInit /\ [][STSNext]_vars /\ STSFairness

\* one region, one thread operating on it
RegionSpecInit == STSInit /\ RegionInit /\ ThreadsInit /\ ExtIdle
SpecRegion == RegionSpecInit /\ [][RegionNext]_vars

HumongousSpecInit == STSInit /\ RegionInit /\ ThreadsInit /\ ExtIdle
SpecHumongous == HumongousSpecInit /\ [][HumongousNext]_vars

\* concurrent par_allocate_impl calls on a region with ParSlack words left
ParTop0 == end - ParSlack
ParAllocInit ==
  /\ STSInit /\ ThreadsInit /\ ExtIdle
  /\ top = ParTop0
  /\ bot = [c \in RegionCardSet |-> 0]
  /\ bot_threshold = address_for_index(index_for(bottom) + 1)
  /\ bot_index = index_for(bottom) + 1
  /\ bot_pre_ok = TRUE
  /\ objs = {}
  /\ last = [op |-> "none", min |-> 0, desired |-> 0, res |-> NULLW,
             actual |-> 0, top0 |-> ParTop0, def |-> TRUE]
  /\ nops = 0
ParAllocNext ==
  \E t \in Allocators : CallParAllocateNoBot(t) \/ PaiRead(t) \/ PaiCas(t)
SpecParAlloc == ParAllocInit /\ [][ParAllocNext]_vars

\* Scheduling: a thread inside par_allocate_impl eventually takes its next step
ParAllocFairness == \A t \in Allocators : WF_vars(PaiRead(t) \/ PaiCas(t))
SpecParAllocFair == ParAllocInit /\ [][ParAllocNext]_vars /\ ParAllocFairness

\* every operation that writes top, interleaved step by step
MaxRaceCalls == 2
TopRaceCall(t) ==
  /\ nops < MaxRaceCalls
  /\ \/ CallParAllocateNoBot(t) \/ CallAllocateNoBot(t) \/ CallAllocate(t)
     \/ CallParAllocate(t) \/ CallClear(t) \/ CallHrClear(t) \/ CallInitialize(t)
TopRaceNext ==
  \E t \in Allocators :
    \/ TopRaceCall(t)
    \/ PaiRead(t) \/ PaiCas(t)
    \/ AiRead(t) \/ AiSet(t) \/ AlBot(t) \/ AlBlockWork(t)
    \/ PaLock(t) \/ PaUnlock(t)
    \/ ClrTop(t) \/ ClrBot(t) \/ ClrInitializeThreshold(t)
SpecTopRace == ParAllocInit /\ [][TopRaceNext]_vars

\* concurrent par_allocate calls (the table-updating variant)
ParAllocBotNext ==
  \E t \in Allocators :
    \/ CallParAllocate(t) \/ PaLock(t) \/ AiRead(t) \/ AiSet(t) \/ AlBot(t)
    \/ AlBlockWork(t) \/ PaUnlock(t)
ParAllocBotInit == STSInit /\ RegionInit /\ ThreadsInit /\ ExtIdle
SpecParAllocBot == ParAllocBotInit /\ [][ParAllocBotNext]_vars

\* hr_clear on regions whose marking data, remembered set, collection-set
\* membership and type the collector has set
HrClearSpecInit == STSInit /\ RegionInit /\ ThreadsInit /\ HrInit(HrClearMaxOps)
HrClearNext ==
  \/ \E r \in HRegions, keep_remset, clear_space, locked \in BOOLEAN :
       HHrClear(r, keep_remset, clear_space, locked)
  \/ \E r \in HRegions : HSetType(r, "set_eden")
  \/ \E r \in HRegions : HSetStartsHumongous(r)
  \/ \E r \in HRegions : HAllocate(r)
  \/ \E r \in HRegions : HSetInCSet(r)
  \/ \E r \in HRegions : HAddToRemSet(r)
  \/ \E r \in HRegions : HNoteStartOfMarking(r)
  \/ \E r \in HRegions : HNoteEndOfMarking(r)
  \/ \E r \in HRegions : HNoteSelfForwardingRemovalEnd(r)
  \/ \E r \in HRegions : HAddToMarkedBytes(r)
SpecHrClear == HrClearSpecInit /\ [][HrClearNext]_vars

\* the type setters and the humongous links over the regions
HrTypesSpecInit == STSInit /\ RegionInit /\ ThreadsInit /\ HrInit(HrMaxOps)
HrTypesNext ==
  \/ \E r \in HRegions, op \in SimpleSetters : HSetType(r, op)
  \/ \E r \in HRegions : HMoveToOld(r)
  \/ \E r \in HRegions : HSetStartsHumongous(r)
  \/ \E r, first_hr \in HRegions : HSetContinuesHumongous(r, first_hr)
  \/ \E r \in HRegions : HClearHumongous(r)
  \/ \E r \in HRegions : HHrClear(r, FALSE, TRUE, FALSE)
  \/ \E r \in HRegions : HAllocate(r)
SpecHrTypes == HrTypesSpecInit /\ [][HrTypesNext]_vars

\* the sync functions over the regions of every server window, the regions'
\* local state changing in between
RdmaSpecInit ==
  /\ STSInit /\ RegionInit /\ ThreadsInit
  /\ assert_build = FALSE
  /\ HrStart(RdmaLocalOps, SRegions)
  /\ RdmaIdle /\ ArIdle
  /\ CmpIdle
RdmaNext ==
  \/ \E r \in SRegions, rets \in [1..4 -> RetValues] : SendInfoAtGC(r, rets)
  \/ \E r \in SRegions, ret \in RetValues : SendTargetQueueAtGC(r, ret)
  \/ \E r \in SRegions, ret \in RetValues : ReadInfoBeforeGC(r, ret)
  \/ \E r \in SRegions, ret \in RetValues : FlushData(r, ret)
  \/ \E r \in SRegions : HAllocate(r)
  \/ \E r \in SRegions : HSetType(r, "set_eden")
SpecRdma == RdmaSpecInit /\ [][RdmaNext]_vars

STSTypeOK ==
  /\ sts_nthreads \in 0..NumWorkers
  /\ sts_stopped \in 0..NumWorkers
  /\ sts_suspend_all \in BOOLEAN
  /\ sts_sem \in Nat
  /\ sts_pc \in [Workers -> WorkerPcs]
  /\ vm_pc \in VmPcs

\* ------------------------------------------------------------------------
\* C1: whenever synchronize() has returned, _suspend_all is true,
\* _nthreads_stopped == _nthreads, and every thread in the set is inside
\* yield(); no joined thread is still running.
C1_SyncSafety ==
  vm_pc = "synced" =>
    /\ sts_suspend_all
    /\ sts_stopped = sts_nthreads
    /\ \A t \in Workers : InSet(t) => InYield(t)

\* a request that had to wait has returned while threads are held in yield()
C1_Witness ==
  /\ vm_pc = "synced"
  /\ sts_waited
  /\ sts_nthreads >= 2
  /\ \A t \in Workers : InSet(t) => InYield(t)

\* ------------------------------------------------------------------------
\* C2: under fair scheduling, when every joined thread eventually yields or
\* leaves, a synchronize() call eventually returns, whether it had to wait on
\* the semaphore or found the set already quiescent (e.g. empty).
C2_SyncLiveness == (vm_pc = "sync_call") ~> (vm_pc = "synced")

\* a request that waited for three running threads has been completed
C2_Witness ==
  /\ vm_pc = "synced"
  /\ sts_waited
  /\ sts_signals = 1
  /\ sts_stopped >= 1

\* ------------------------------------------------------------------------
\* C3: the semaphore is signalled exactly once for a request that waited and
\* never for a request that returned at once; its count is 0 whenever no
\* synchronize() is in progress, so no signal is left for a later request.
C3_SignalOnce ==
  /\ sts_sem \in {0, 1}
  /\ vm_pc \in {"idle", "sync_call", "synced"} => sts_sem = 0
  /\ vm_pc = "sem_wait" => sts_sem = sts_signals
  /\ vm_pc = "synced" => sts_signals = (IF sts_waited THEN 1 ELSE 0)
  /\ vm_pc = "idle" => sts_signals \in {0, 1}

\* a request completed by a leave(): one signal, consumed, count back to 0
C3_Witness ==
  /\ vm_pc = "synced"
  /\ sts_waited
  /\ sts_signals = 1
  /\ sts_sem = 0
  /\ \E t \in Workers : sts_pc[t] = "out"
  /\ \E t \in Workers : InYield(t)

\* ------------------------------------------------------------------------
\* C4: a thread that yields under an active request is counted as stopped and
\* leaves yield() only once _suspend_all is false; and if from some point on
\* no request is active, every thread blocked in yield() or join() gets out
\* and _nthreads_stopped goes back to 0.
C4_YieldCounts ==
  \A t \in Workers :
    (sts_pc[t] = "in" /\ sts_suspend_all /\ sts_pc'[t] # "in" /\ sts_pc'[t] # "out")
      => (sts_pc'[t] = "yield_wait" /\ sts_stopped' = sts_stopped + 1)

C4_YieldHolds ==
  \A t \in Workers :
    (InYield(t) /\ sts_pc'[t] \notin {"yield_wait", "yield_woken"})
      => (~sts_suspend_all /\ sts_pc'[t] = "in" /\ sts_stopped' = sts_stopped - 1)

C4_NoneBlocked ==
  /\ sts_stopped = 0
  /\ \A t \in Workers : sts_pc[t] \in {"in", "out"}

C4_YieldBlocksUntilDesync ==
  /\ [][C4_YieldCounts /\ C4_YieldHolds]_vars
  /\ (<>[](~sts_suspend_all)) => (<>[]C4_NoneBlocked)

\* desynchronize() has just released two stopped threads and a joiner
C4_Witness ==
  /\ ~sts_suspend_all
  /\ vm_pc = "idle"
  /\ sts_stopped >= 1
  /\ \E t \in Workers : sts_pc[t] = "yield_woken"
  /\ \E t \in Workers : sts_pc[t] = "join_woken"


\* ------------------------------------------------------------------------
\* the blocks handed out so far, and the words they cover
RECURSIVE SumSizes(_)
SumSizes(S) ==
  IF S = {} THEN 0
  ELSE LET o == CHOOSE x \in S : TRUE IN o.size + SumSizes(S \ {o})

Disjoint(o, p) == o.start + o.size <= p.start \/ p.start + p.size <= o.start

\* C5: for any interleaving of concurrent par_allocate_impl calls on one
\* region, the ranges returned by successful calls are pairwise disjoint,
\* each lies within [bottom, end), and top equals the initial top plus the sum
\* of the sizes of all successful allocations.
C5_ParAllocDisjoint ==
  /\ \A o \in objs : bottom <= o.start /\ o.size >= 1 /\ o.start + o.size <= end
  /\ \A o \in objs : \A p \in objs : o # p => Disjoint(o, p)
  /\ top = ParTop0 + SumSizes(objs)
  /\ \A t \in Allocators :
       (th[t].pc = "idle" /\ th[t].res # NULLW) =>
         \E o \in objs : o.start = th[t].res /\ o.size = th[t].want

\* two threads have allocated three ranges between them and filled the
\* region; the last allocation was clamped to the words left
C5_Witness ==
  /\ Cardinality(objs) >= 3
  /\ top = end
  /\ \E t \in Allocators : \E u \in Allocators :
       /\ t # u
       /\ th[t].pc = "idle" /\ th[t].res # NULLW
       /\ th[u].pc = "idle" /\ th[u].res # NULLW
       /\ th[u].want < th[u].desired

\* ------------------------------------------------------------------------
\* C6: when end - top is smaller than min_word_size, allocate_impl,
\* par_allocate_impl and allocate return NULL and leave top, the block offset
\* table and its (threshold, index) cursor unchanged.
C6_FailStep ==
  (/\ nops' = nops + 1
   /\ last'.op \in {"allocate_impl", "par_allocate_impl", "allocate"}
   /\ end - top < last'.min)
  => /\ last'.res = NULLW
     /\ top' = top
     /\ bot' = bot
     /\ bot_threshold' = bot_threshold
     /\ bot_index' = bot_index
C6_FailNoSideEffects == [][C6_FailStep]_vars

\* allocate() has just been refused in a region that holds blocks and has
\* fewer than min_word_size words left
C6_Witness ==
  /\ last.op = "allocate"
  /\ last.res = NULLW
  /\ top = last.top0
  /\ top > bottom /\ top < end
  /\ end - top < last.min
  /\ objs # {}

\* ------------------------------------------------------------------------
\* C7: a successful allocate_impl(min, desired) returns the value of top
\* before the call, reports actual_size = min(end - top, desired) with
\* min <= actual_size <= desired, and advances top by exactly actual_size; it
\* succeeds exactly when min(end - top, desired) >= min.
C7_AllocateImpl ==
  last.op = "allocate_impl" =>
    LET want == Min2(end - last.top0, last.desired)
    IN /\ (last.res # NULLW) <=> (want >= last.min)
       /\ last.res # NULLW =>
            /\ last.res = last.top0
            /\ last.actual = want
            /\ last.min <= last.actual /\ last.actual <= last.desired
            /\ top = last.top0 + last.actual

\* allocate_impl has just succeeded with less than it desired, filling the region
C7_Witness ==
  /\ last.op = "allocate_impl"
  /\ last.res # NULLW
  /\ last.actual < last.desired
  /\ last.actual = end - last.top0
  /\ last.top0 > bottom
  /\ top = end

\* ------------------------------------------------------------------------
\* C8: bottom <= top <= end in every reachable state, after any sequence or
\* interleaving of initialize, allocate, par_allocate, allocate_no_bot_updates,
\* par_allocate_no_bot_updates, clear and hr_clear.
C8_TopInBounds == bottom <= top /\ top <= end

\* the region was filled to end by a clamped allocation of one thread while
\* another thread's call is under way
C8_Witness ==
  /\ top = end
  /\ \E t \in Allocators : \E u \in Allocators :
       /\ t # u
       /\ th[t].res # NULLW /\ th[t].want < th[t].desired
       /\ th[u].pc # "idle"

\* ------------------------------------------------------------------------
\* the lookup of every address of block o returns the start of o
LooksUp(o) ==
  \A addr \in o.start .. (o.start + o.size - 1) : block_start_results(addr) = {o.start}

\* C9 as stated: after any sequence of alloc_block calls with increasing,
\* non-overlapping, contiguous or gapped blocks inside one region,
\* block_start(addr) returns exactly start for every addr in each recorded
\* [start, end), for blocks of any length.
C9_RoundTripAnyGap == \A o \in objs : o.rec => LooksUp(o)

\* C9 witness: in a build without ASSERT, a block allocated after an
\* allocation without table updates had moved top past the threshold has been
\* recorded by alloc_block_work with blk_start > threshold: the card of the
\* threshold holds the wrapped difference, and the look-up of the block's
\* addresses does not yield its start
C9_Witness ==
  /\ ~assert_build /\ ~hr_aborted /\ ~bot_pre_ok
  /\ last.op = "allocate" /\ last.res # NULLW
  /\ \E o \in objs : o.rec /\ o.start = last.res /\ ~LooksUp(o)
  /\ \E c \in RegionCardSet : bot[c] > N_words + N_powers - 1

\* ------------------------------------------------------------------------
\* C10: concurrent par_allocate calls on one region are serialized by
\* _par_alloc_lock: after any interleaving every successful allocation is
\* recorded in the table, threshold == reserved.start + index * N_words, and
\* block_start of any allocated address returns the start of its allocation.
\* (The threshold and the index agree whenever no call is between the two
\* stores that end alloc_block_work.)
C10_ParAllocateSerialized ==
  /\ (\A t \in Allocators : th[t].pc # "abw_out_idx") =>
       bot_threshold = reserved_start + bot_index * N_words
  /\ \A t \in Allocators :
       (th[t].pc = "idle" /\ th[t].res # NULLW) =>
         \E o \in objs : o.start = th[t].res /\ o.size = th[t].want /\ o.rec
  /\ par_alloc_lock = 0 => \A o \in objs : o.rec
  /\ \A o \in objs : \A p \in objs : o # p => Disjoint(o, p)
  /\ \A o \in objs : o.rec => LooksUp(o)

\* both threads have allocated, one of them across several cards, and a third
\* call is waiting for the lock
C10_Witness ==
  /\ Cardinality(objs) >= 2
  /\ \A o \in objs : o.rec
  /\ \E o \in objs : o.size > 2 * N_words
  /\ bot_index > index_for(bottom) + 2
  /\ \E t \in Allocators : \E u \in Allocators :
       /\ t # u
       /\ th[t].pc = "idle" /\ th[t].res # NULLW
       /\ th[u].pc = "pa_lock"
\* ------------------------------------------------------------------------
\* hr_clear
\* ------------------------------------------------------------------------
\* the last operation was a hr_clear that met its preconditions and returned
HrCleared ==
  /\ hr_last.op = "hr_clear"
  /\ ~hr_last.aborted
  /\ ~hr_last.before.in_cset
  /\ hr_last.before.hsr = NULLW

\* what hr_clear resets whatever its arguments
HrClearResets(rec, r) ==
  /\ rec.prev_marked = 0 /\ rec.next_marked = 0
  /\ rec.prev_tams = HBottom(r) /\ rec.next_tams = HBottom(r)
  /\ rec.type = "Free"
  /\ rec.remset = (hr_last.keep_remset /\ hr_last.before.remset)

\* C11 as stated: after hr_clear on a region that is not in the collection
\* set, for all argument values, top == bottom, both marked-byte counters
\* are 0, both TAMS equal bottom, the type is Free, and the remembered set
\* is cleared exactly when keep_remset is false.
C11_HrClearResetsTop ==
  HrCleared =>
    /\ hr[hr_last.r].top = HBottom(hr_last.r)
    /\ HrClearResets(hr[hr_last.r], hr_last.r)

\* C11 amended: after hr_clear on a region that is not in the collection
\* set, both marked-byte counters are 0, both TAMS equal bottom, the type is
\* Free and the remembered set is cleared exactly when keep_remset is false;
\* top == bottom when clear_space is true, and top is unchanged when
\* clear_space is false.
C11_HrClear ==
  HrCleared =>
    /\ hr[hr_last.r].top = IF hr_last.clear_space THEN HBottom(hr_last.r)
                           ELSE hr_last.before.top
    /\ HrClearResets(hr[hr_last.r], hr_last.r)

\* hr_clear(false, false, .) has acted on a region with an object, marked
\* bytes, a raised TAMS and a remembered set
C11_Witness ==
  /\ HrCleared
  /\ ~hr_last.keep_remset /\ ~hr_last.clear_space
  /\ hr_last.before.top > HBottom(hr_last.r)
  /\ hr_last.before.prev_marked > 0
  /\ hr_last.before.prev_tams > HBottom(hr_last.r)
  /\ hr_last.before.remset

\* C12 as stated: hr_clear on a region that is in the collection set, or
\* that still has a humongous start-region back-pointer, aborts the process
\* and leaves the region's type, top, TAMS, counters and remembered set as
\* they were.
C12_HrClearInCSetFatal ==
  (/\ hr_last.op = "hr_clear"
   /\ (hr_last.before.in_cset \/ hr_last.before.hsr # NULLW))
  => (hr_aborted /\ hr[hr_last.r] = hr_last.before)

\* such a call has happened in a build without ASSERT, on a region in the
\* collection set that held marked bytes
C12_Witness ==
  /\ hr_last.op = "hr_clear"
  /\ hr_last.before.in_cset
  /\ hr_last.before.prev_marked > 0
  /\ ~assert_build

\* ------------------------------------------------------------------------
\* region types and humongous links
\* ------------------------------------------------------------------------
\* C13 as stated: every type-changing operation (set_free, set_eden,
\* set_eden_pre_gc, set_survivor, set_old, move_to_old, set_open_archive,
\* set_closed_archive, set_starts_humongous, set_continues_humongous) emits
\* its trace event before the type tag is modified, so the event's from-type
\* is the region's type before the transition.
C13_EventBeforeTagChange ==
  (/\ hr_last.op \in SimpleSetters \cup {"move_to_old", "set_starts_humongous",
                                         "set_continues_humongous"}
   /\ hr[hr_last.r].type # hr_last.before.type)
  => /\ hr_event.n = hr_last.events + 1
     /\ hr_event.r = hr_last.r
     /\ hr_event.from = hr_last.before.type
     /\ hr_event.to = hr[hr_last.r].type

\* move_to_old has turned an Eden region into an Old one
C13_Witness ==
  /\ hr_last.op = "move_to_old"
  /\ hr_last.before.type = "Eden"
  /\ hr[hr_last.r].type = "Old"
  /\ hr_event.n = hr_last.events + 1

\* the record of the region named as first_hr when the last operation began
FirstBefore ==
  IF hr_last.first_hr = hr_last.r THEN hr_last.before ELSE hr[hr_last.first_hr]

\* the last operation was a humongous transition called against one of its
\* asserted preconditions
HumongousPreViolated ==
  \/ /\ hr_last.op = "set_starts_humongous"
     /\ ~set_starts_humongous_pre(hr_last.before, hr_last.r)
  \/ /\ hr_last.op = "set_continues_humongous"
     /\ ~set_continues_humongous_pre(hr_last.before, hr_last.r, FirstBefore)
  \/ /\ hr_last.op = "clear_humongous"
     /\ ~clear_humongous_pre(hr_last.before, hr_last.r)

\* C14 as stated: set_starts_humongous and set_continues_humongous are only
\* performed on an empty, non-humongous region, set_continues_humongous only
\* with a StartsHumongous first_hr, clear_humongous only on a humongous
\* region of capacity GrainBytes; when a precondition is violated the type,
\* the back-pointer and the BOT are not changed.
C14_HumongousPreconditions ==
  HumongousPreViolated =>
    /\ hr[hr_last.r].type = hr_last.before.type
    /\ hr[hr_last.r].hsr = hr_last.before.hsr
    /\ hr[hr_last.r].hum_bot = hr_last.before.hum_bot
    /\ hr[hr_last.r].can_span = hr_last.before.can_span

\* set_starts_humongous has been called on a region that holds an object
C14_Witness ==
  /\ hr_last.op = "set_starts_humongous"
  /\ hr_last.before.top > HBottom(hr_last.r)
  /\ ~is_humongous(hr_last.before)

\* C15 as stated, even over behaviours in which every asserted precondition
\* held: in every reachable state every ContinuesHumongous region has a
\* non-NULL humongous_start_region that is a StartsHumongous region, and a
\* StartsHumongous region points to itself.
C15_HumongousLinksAlways ==
  hr_pre_ok =>
    \A r \in HRegions :
      /\ hr[r].type = "ContinuesHumongous" =>
           /\ hr[r].hsr \in HRegions
           /\ hr[hr[r].hsr].type = "StartsHumongous"
      /\ hr[r].type = "StartsHumongous" => hr[r].hsr = r

\* C15 amended: when every asserted precondition held, set_continues_humongous
\* leaves the region ContinuesHumongous with its back-pointer at first_hr,
\* which is StartsHumongous at that moment; a StartsHumongous region points
\* to itself and a ContinuesHumongous region to some region until
\* clear_humongous is called on it, which sets the back-pointer to NULL and
\* leaves the type as it was.
C15_HumongousLinks ==
  hr_pre_ok =>
    /\ \A r \in HRegions :
         /\ hr[r].type = "ContinuesHumongous" =>
              IF hr[r].hum_cleared THEN hr[r].hsr = NULLW
              ELSE hr[r].hsr \in HRegions
         /\ hr[r].type = "StartsHumongous" =>
              IF hr[r].hum_cleared THEN hr[r].hsr = NULLW
              ELSE hr[r].hsr = r
    /\ (hr_last.op = "set_continues_humongous" /\ ~hr_last.aborted) =>
         /\ hr[hr_last.r].type = "ContinuesHumongous"
         /\ hr[hr_last.r].hsr = hr_last.first_hr
         /\ hr[hr_last.first_hr].type = "StartsHumongous"

\* a region has been linked to a start region other than itself
C15_Witness ==
  /\ hr_pre_ok
  /\ hr_last.op = "set_continues_humongous"
  /\ ~hr_last.aborted
  /\ hr_last.first_hr # hr_last.r
  /\ hr[hr_last.r].type = "ContinuesHumongous"

\* C16 as stated: no sequence of region operations changes a region's type
\* from ContinuesHumongous directly to Eden.
C16_NoContinuesToEden ==
  [][\A r \in HRegions :
       ~(hr[r].type = "ContinuesHumongous" /\ hr'[r].type = "Eden")]_vars

\* C16 witness: in a build without ASSERT, set_eden has been called on a
\* ContinuesHumongous region linked to its start region, and the region is
\* Eden
C16_Witness ==
  /\ hr_last.op = "set_eden"
  /\ hr_last.before.type = "ContinuesHumongous"
  /\ hr_last.before.hsr \in HRegions
  /\ ~assert_build /\ ~hr_aborted
  /\ hr[hr_last.r].type = "Eden"

\* ------------------------------------------------------------------------
\* region synchronisation
\* ------------------------------------------------------------------------
\* C17 as stated: region_to_memory_server_mapping returns, for every region,
\* the id of the memory server whose address window contains the region's
\* [bottom, end), the region whose end equals the first address of memory
\* server 1's window included, whatever the region's mutable state.
C17_MappingIsWindowServer ==
  \A i \in DOMAIN rdma_log :
    rdma_log[i].server = window_server(rdma_log[i].region)

\* a sync function has run on the region that ends where server 1's window
\* begins, after the region's top had moved
C17_Witness ==
  /\ rdma_last.op # "none"
  /\ HEnd(rdma_last.r) = MEMORY_SERVER_1_START_ADDR
  /\ hr[rdma_last.r].top > HBottom(rdma_last.r)
  /\ Len(rdma_log) > 0

\* C18: send_info_at_gc transfers the region's CPUToMemoryAtGC, its
\* MemoryToCPUAtGC and its BOT partition bytes, every transfer a write of the
\* region's own data to the server region_to_memory_server_mapping gives,
\* CPUToMemoryAtGC first and the BOT bytes last, and it leaves the region's
\* local state as it was.
C18_SendInfoAtGC ==
  [][(rdma_last'.op = "send_info_at_gc" /\ <<rdma_log, rdma_last>>' # <<rdma_log, rdma_last>>)
     => /\ {"CPUToMemoryAtGC", "MemoryToCPUAtGC", "offset_array_part"}
             \subseteq {rdma_log'[i].what : i \in DOMAIN rdma_log'}
        /\ \A i \in DOMAIN rdma_log' :
             /\ rdma_log'[i].op = "RDMA_WRITE"
             /\ rdma_log'[i].region = rdma_last'.r
             /\ rdma_log'[i].server = region_to_memory_server_mapping(rdma_last'.r)
        /\ rdma_log'[1].what = "CPUToMemoryAtGC"
        /\ rdma_log'[Len(rdma_log')].what = "offset_array_part"
        /\ hr' = hr /\ top' = top /\ bot' = bot]_vars

\* send_info_at_gc has run on a region that holds an object
C18_Witness ==
  /\ rdma_last.op = "send_info_at_gc"
  /\ Len(rdma_log) = 4
  /\ hr[rdma_last.r].top > HBottom(rdma_last.r)
  /\ \E i \in DOMAIN rdma_log : rdma_log[i].ret # 0

\* C19 as stated: every transport operation of the sync functions that
\* returns a nonzero status causes a fatal abort; no sync function continues
\* or returns normally after a failed transfer.
C19_FailedTransferFatal ==
  (\E i \in DOMAIN rdma_log : rdma_log[i].ret # 0)
  => (hr_aborted /\ ~rdma_last.returned)

\* the first write of send_info_at_gc has failed
C19_Witness ==
  /\ rdma_last.op = "send_info_at_gc"
  /\ rdma_log[1].ret # 0
  /\ rdma_log[4].ret = 0

\* ------------------------------------------------------------------------
\* Compaction of one region (SpecCompact)
\* ------------------------------------------------------------------------
CRec == c_reg[hrm_index]
CBefore == c_run.before
Compacted == ~hr_aborted /\ CRec.phase = 3

\* an object marked before the compaction stands whole at the address phase 1
\* forwarded it to
StandsAtDestination(o) ==
  /\ o \in DOMAIN CRec.dest
  /\ CRec.dest[o] \in DOMAIN c_mem
  /\ c_mem[CRec.dest[o]].body = CBefore.mem[o].body
  /\ c_mem[CRec.dest[o]].size = CBefore.mem[o].size
  /\ c_mem[CRec.dest[o]].ok

\* C22: compaction conserves the live data.  Once phases 1 to 3 have run on a
\* region, the objects in it have together the size of the objects that were
\* marked, each marked object stands unchanged at its forwarding address, and
\* every such address is strictly below the top the region had before.
C22_CompactionConservesLiveData ==
  Compacted =>
    /\ SumSizes(objs) = SumSizes({CBefore.mem[o] : o \in CBefore.bm})
    /\ {b.start : b \in objs} = {CRec.dest[o] : o \in CBefore.bm}
    /\ \A o \in CBefore.bm :
         StandsAtDestination(o) /\ CRec.dest[o] < CBefore.top[hrm_index]

\* C22 witness: a compaction moved a live object down over a dead one while
\* another live object stayed where it was
C22_Witness ==
  /\ Compacted
  /\ \E o \in CBefore.bm : CRec.dest[o] < o
  /\ \E o \in CBefore.bm : CRec.dest[o] = o
  /\ \E o \in CBefore.bm : CRec.dest[o] < o /\ CRec.dest[o] + CBefore.mem[o].size > o

\* C23: after calculate, adjust and compact on a region whose live objects
\* have S words in all, with any gaps between them, top is bottom + S, both
\* marked-byte counters are zero, both TAMS are bottom, and block_start of the
\* new address of every object is that address.
C23_RegionAfterCompaction ==
  Compacted =>
    /\ top = bottom + SumSizes({CBefore.mem[o] : o \in CBefore.bm})
    /\ CRec.top = top
    /\ CRec.prev_marked = 0 /\ CRec.next_marked = 0
    /\ CRec.prev_tams = bottom /\ CRec.next_tams = bottom
    /\ \A o \in CBefore.bm :
         /\ block_start(bot, CRec.dest[o]).def
         /\ block_start(bot, CRec.dest[o]).q = CRec.dest[o]

\* C23 witness: three live objects of 64, 128 and 256 words with dead objects
\* between them were compacted, and top is 448 words above bottom
C23_Witness ==
  /\ Compacted
  /\ {CBefore.mem[o].size : o \in CBefore.bm} = {64, 128, 256}
  /\ Cardinality(CBefore.bm) = 3
  /\ Cardinality(DOMAIN CBefore.mem) > 4
  /\ top = bottom + 448
  /\ \A o \in CBefore.bm : block_start(bot, CRec.dest[o]).q = CRec.dest[o]

\* the sequence v lists the addresses of S once each, in ascending order
AscendingOf(v, S) ==
  /\ {v[i] : i \in DOMAIN v} = S
  /\ \A i, j \in DOMAIN v : i < j => v[i] < v[j]
DeadBefore == DOMAIN CBefore.mem \ CBefore.bm

\* C26: apply_to_marked_objects applies the closure to every marked object
\* below the scan limit exactly once and in ascending address order, never to
\* an unmarked object, and the scan stops exactly at the limit; a dead object
\* is neither forwarded nor copied.  No assert of the walk or of the closures
\* fails.
C26_ApplyToMarkedObjects ==
    /\ ~hr_aborted
    /\ CRec.phase >= 1 => AscendingOf(CRec.visited1, CBefore.bm)
    /\ CRec.phase >= 2 => AscendingOf(CRec.visited2, CBefore.bm)
    /\ CRec.phase >= 3 => AscendingOf(CRec.visited3, CBefore.bm)
    /\ CRec.phase >= 1 => CRec.stop = CBefore.top[hrm_index]
    /\ \A d \in DeadBefore :
         /\ d \notin DOMAIN CRec.dest
         /\ d \in DOMAIN c_mem /\ c_mem[d].body = d => c_mem[d].mark = NULLW
         /\ \A x \in DOMAIN c_mem : c_mem[x].body = d => x = d

\* C26 witness: the three closures walked a region holding two marked objects
\* with an unmarked one between them, and a mark at the scan limit
C26_Witness ==
  /\ Compacted
  /\ CBefore.stale = {CBefore.top[hrm_index]}
  /\ Len(CRec.visited3) = 2
  /\ \E d \in DeadBefore : CRec.visited3[1] < d /\ d < CRec.visited3[2]
  /\ CRec.visited1 = CRec.visited3 /\ CRec.visited2 = CRec.visited3

\* ------------------------------------------------------------------------
\* The gang of compaction workers (SpecGang)
\* ------------------------------------------------------------------------
GBefore == c_run.before
MarkedIn(r) == {o \in GBefore.bm : addr_to_region(o) = r}
\* where an object of region r stands now, and where phase 1 sent it
NowAt(r, o) ==
  IF c_reg[r].phase = 3 /\ o \in DOMAIN c_reg[r].dest THEN c_reg[r].dest[o] ELSE o
ForwardedTo(r, t) == IF t \in DOMAIN c_reg[r].dest THEN c_reg[r].dest[t] ELSE t

FieldAdjusted(r, o) ==
  LET t == GBefore.mem[o].ref
      now == c_mem[NowAt(r, o)].ref
  IN IF t = NULLW THEN now = NULLW
     ELSE IF addr_to_region(t) = r THEN now = ForwardedTo(r, t)
     ELSE now = t /\ (o + HeaderWords) \in c_queue \cup c_run.fixed

\* C25: the adjust phase rewrites a reference whose target lies in the region
\* of the field to the target's forwarding address; a reference into another
\* region is left as it is and its field is recorded in the cross-region
\* reference queue.  Nothing else is recorded.
C25_AdjustPhase ==
  ~hr_aborted =>
    /\ \A r \in DOMAIN c_reg : c_reg[r].phase >= 2 =>
         \A o \in MarkedIn(r) : FieldAdjusted(r, o)
    /\ \A p \in c_queue \cup c_run.fixed :
         /\ (p - HeaderWords) \in GBefore.bm
         /\ GBefore.mem[p - HeaderWords].ref # NULLW
         /\ addr_to_region(GBefore.mem[p - HeaderWords].ref) # addr_to_region(p)
         /\ c_reg[addr_to_region(p)].phase >= 2

\* C25 witness: phase 2 has run on a region but not phase 3; it rewrote the
\* field of one live object to the new address of its target in the region,
\* and left and recorded the field of another, which refers to a region whose
\* objects phase 1 has already forwarded
C25_Witness ==
  /\ ~hr_aborted
  /\ \E r \in DOMAIN c_reg :
       /\ c_reg[r].phase = 2
       /\ \E o \in MarkedIn(r) :
            /\ GBefore.mem[o].ref # NULLW /\ addr_to_region(GBefore.mem[o].ref) = r
            /\ c_mem[o].ref # GBefore.mem[o].ref
       /\ \E o \in MarkedIn(r) :
            /\ GBefore.mem[o].ref # NULLW /\ addr_to_region(GBefore.mem[o].ref) # r
            /\ c_mem[o].ref = GBefore.mem[o].ref
            /\ (o + HeaderWords) \in c_queue
            /\ c_reg[addr_to_region(GBefore.mem[o].ref)].phase = 1
            /\ c_mem[GBefore.mem[o].ref].mark # NULLW

ObjectsOf(r) == {x \in DOMAIN GBefore.mem : addr_to_region(x) = r}
\* no object of region r has moved: each stands whole where it stood, and top
\* is where it was
NothingMoved(r) ==
  /\ c_reg[r].top = GBefore.top[r]
  /\ \A x \in ObjectsOf(r) :
       /\ x \in DOMAIN c_mem
       /\ c_mem[x].body = GBefore.mem[x].body /\ c_mem[x].size = GBefore.mem[x].size
       /\ c_mem[x].ok /\ c_mem[x].mark = NULLW
\* no word of region r has changed
NothingChanged(r) ==
  /\ c_reg[r].top = GBefore.top[r]
  /\ \A x \in ObjectsOf(r) : x \in DOMAIN c_mem /\ c_mem[x] = GBefore.mem[x]

\* C27: the reference fields of an open archive region are adjusted in phase
\* 2, and its objects are never moved; of a closed archive region no reference
\* field is rewritten and no object is moved in any phase, whatever its mark
\* bitmap holds.
C27_ArchiveRegions ==
  ~hr_aborted =>
    \A r \in DOMAIN c_reg :
      /\ c_reg[r].type = "OpenArchive" =>
           /\ NothingMoved(r)
           /\ c_reg[r].phase >= 2 =>
                /\ AscendingOf(c_reg[r].visited2, MarkedIn(r))
                /\ \A o \in MarkedIn(r) : FieldAdjusted(r, o)
      /\ c_reg[r].type = "ClosedArchive" => NothingChanged(r)

\* C27 witness: the gang returned after taking a closed archive region with
\* marked objects that refer to each other through its three phases, the
\* adjust closure having been applied to them
C27_Witness ==
  /\ ~hr_aborted /\ c_run.returned
  /\ \E r \in DOMAIN c_reg :
       /\ c_reg[r].type = "ClosedArchive" /\ c_reg[r].phase = 3
       /\ Len(c_reg[r].visited2) = 2
       /\ \E o \in MarkedIn(r) : GBefore.mem[o].ref # NULLW
       /\ \E d \in ObjectsOf(r) : d \notin GBefore.bm /\ d < c_reg[r].visited2[1]

InPhases(w) == c_run.pc[w] \in {"p1", "p2", "p3"}
\* a step in which worker w starts phase 4
StartsPhase4(w) == c_run.pc[w] # "p4done" /\ c_run'.pc[w] = "p4done"
PhaseOrderStep ==
  /\ \A r \in DOMAIN c_reg :
       /\ c_reg'[r].phase \in {c_reg[r].phase, c_reg[r].phase + 1}
       /\ c_reg[r].visited2 # c_reg'[r].visited2 => c_reg[r].phase = 1
       /\ c_reg[r].visited3 # c_reg'[r].visited3 => c_reg[r].phase = 2
  /\ \A w \in CGang :
       StartsPhase4(w) =>
         /\ \A v \in CGang : ~InPhases(v)
         /\ \A r \in DOMAIN c_reg : c_reg[r].phase = 3

\* C28: a region goes through phases 1, 2 and 3 in this order, each done
\* before the next starts, and no worker starts phase 4 before phase 3 is done
\* for every region of every worker.
C28_PhaseOrdering == [][PhaseOrderStep]_vars

\* C28 witness: one worker has started phase 4 while the other still waits,
\* every region having been taken through phase 3 by its own worker
C28_Witness ==
  /\ ~hr_aborted
  /\ \E w, v \in CGang : c_run.pc[w] = "p4done" /\ c_run.pc[v] = "barrier"
  /\ \A r \in DOMAIN c_reg : c_reg[r].phase = 3 /\ c_reg[r].times = 1
  /\ \E r, q \in DOMAIN c_reg : c_reg[r].worker # c_reg[q].worker

\* C29: every region is taken through the phases by one worker, once: the
\* worker whose compaction point holds it; the compaction points of two
\* workers share no region, no two workers are at work on the same region, and
\* a run that has returned has taken every region.
C29_OneWorkerPerRegion ==
  /\ \A w, v \in CGang : w # v => compaction_point(w) \cap compaction_point(v) = {}
  /\ \A r \in DOMAIN c_reg :
       /\ c_reg[r].times <= 1
       /\ c_reg[r].times = 0 <=> c_reg[r].phase = 0
       /\ c_reg[r].times = 1 => r \in compaction_point(c_reg[r].worker)
       /\ c_run.returned => c_reg[r].times = 1
  /\ \A w, v \in CGang :
       w # v /\ InPhases(w) /\ InPhases(v) => c_run.cur[w] # c_run.cur[v]
  /\ \A w \in CGang : InPhases(w) => c_reg[c_run.cur[w]].worker \in {0, w}

\* C29 witness: two workers are at work at once, on regions of their own, one
\* of them on its second region
C29_Witness ==
  \E w, v \in CGang :
    /\ w # v /\ c_run.pc[w] = "p3" /\ c_run.pc[v] = "p2"
    /\ c_reg[c_run.cur[w]].worker = w /\ c_reg[c_run.cur[v]].worker = v
    /\ \E r \in compaction_point(w) : r # c_run.cur[w] /\ c_reg[r].phase = 3

\* ------------------------------------------------------------------------
\* C31
\* ------------------------------------------------------------------------
ArLast == g1ar.last
ArCur == ArLast.before.alloc_region
ArTopBefore == ArLast.before.top[ArCur]
\* the current region had room for the request
ArFits == Min2(end - ArTopBefore, ArLast.desired) >= ArLast.min
ArOthersUntouched(S) ==
  \A r \in DOMAIN g1ar.top : r \notin S => g1ar.top[r] = ArLast.before.top[r]

\* C31: running out of space is a NULL result and never fatal: neither
\* attempt_allocation nor attempt_allocation_locked ends the process.
\* attempt_allocation returns NULL exactly when the current region has no
\* room, and then leaves the current alloc region, every top and
\* *actual_word_size as they were.  attempt_allocation_locked first retries
\* the current region; only when that fails it retires the region and
\* allocates in a new one, it returns NULL only when both attempts fail, and
\* when the second succeeds *actual_word_size is desired_word_size.
C31_OutOfSpaceIsNull ==
  /\ ArLast.op \in {"attempt_allocation", "attempt_allocation_locked"} => ~hr_aborted
  /\ ArLast.op = "attempt_allocation" =>
       /\ ArLast.res = NULLW <=> ~ArFits
       /\ g1ar.alloc_region = ArCur
       /\ ArOthersUntouched({ArCur})
       /\ ArLast.res = NULLW =>
            g1ar.top[ArCur] = ArTopBefore /\ ArLast.actual = ArUnset
       /\ ArLast.res # NULLW =>
            /\ ArLast.res = ArTopBefore
            /\ ArLast.actual \in ArLast.min..ArLast.desired
            /\ g1ar.top[ArCur] = ArTopBefore + ArLast.actual
  /\ ArLast.op = "attempt_allocation_locked" =>
       /\ ArFits =>
            /\ ArLast.res = ArTopBefore /\ ArLast.path = "first"
            /\ g1ar.alloc_region = ArCur
            /\ g1ar.top[ArCur] = ArTopBefore + ArLast.actual
            /\ ArLast.actual \in ArLast.min..ArLast.desired
            /\ ArOthersUntouched({ArCur})
       /\ ~ArFits =>
            /\ ArLast.res = NULLW <=> ArLast.granted = NULLW
            /\ ArCur # DummyRegion => g1ar.top[ArCur] = end
            /\ ArLast.res # NULLW =>
                 /\ ArLast.path = "second"
                 /\ ArLast.actual = ArLast.desired
                 /\ g1ar.alloc_region = ArLast.granted /\ g1ar.alloc_region # ArCur
                 /\ ArLast.res = bottom
                 /\ g1ar.top[g1ar.alloc_region] = bottom + ArLast.desired
                 /\ ArOthersUntouched({ArCur, ArLast.granted})
            /\ ArLast.res = NULLW =>
                 /\ ArLast.actual = ArUnset /\ g1ar.alloc_region = DummyRegion
                 /\ ArOthersUntouched({ArCur})

\* C31 witness: attempt_allocation_locked found no room in a region that was
\* in use, retired it and allocated in a new one
C31_Witness ==
  /\ ~hr_aborted /\ ArLast.op = "attempt_allocation_locked"
  /\ ArCur # DummyRegion /\ ArTopBefore < end /\ ~ArFits
  /\ ArLast.res # NULLW /\ ArLast.path = "second"
\* ------------------------------------------------------------------------
\* C32
\* ------------------------------------------------------------------------
\* C32: with ConcGCYieldTimeout > 0, a suspend request completed after the
\* bound, by the last yield() or by the last leave(), is fatal.
C32_LateRequestFatal ==
  sts_time.timeout > 0 /\ sts_time.late => hr_aborted

\* the part of C32 that the code has: the last yield() aborts when it
\* completes the request after the bound
C32_LateYieldFatal ==
  sts_time.timeout > 0 /\ sts_time.late /\ sts_time.done = "yield" => hr_aborted

\* C32 witness: the last leave() completed a request after the bound and the
\* requester has been signalled
C32_Witness ==
  /\ sts_time.timeout > 0 /\ sts_time.late /\ sts_time.done = "leave"
  /\ ~hr_aborted /\ sts_signals = 1 /\ vm_pc \in {"sem_wait", "synced"}

\* ------------------------------------------------------------------------
\* C33
\* ------------------------------------------------------------------------
\* the card at which alloc_block_work stores a block's offset: the card of
\* the threshold the block crosses
OffsetCard(o) ==
  IF is_card_boundary(o.start) /\ o.start # bottom THEN index_for(o.start)
  ELSE index_for(o.start) + 1
LastCard(o) == index_for(o.start + o.size - 1)
IsSkipEntry(e) == e >= N_words /\ e - N_words < N_powers
\* the card the backward walk from card c stops at, or NULLW when it reads an
\* entry that is no back skip or leaves the cards oc..c
RECURSIVE ChainEnd(_, _)
ChainEnd(c, oc) ==
  IF c = oc THEN c
  ELSE IF c < oc \/ ~IsSkipEntry(bot[c]) THEN NULLW
  ELSE IF ~PowerFits(bot[c] - N_words, c - oc) THEN NULLW
  ELSE ChainEnd(c - entry_to_cards_back(bot[c]), oc)
Landing(c) == c - entry_to_cards_back(bot[c])
SkipChainWellFormed(o) ==
  LET oc == OffsetCard(o)
      lc == LastCard(o)
  IN lc > oc =>
       /\ bot[oc] <= N_words
       /\ address_for_index(oc) - bot[oc] = o.start
       /\ bot[oc + 1] = N_words
       /\ \A c \in (oc + 1)..lc :
            /\ IsSkipEntry(bot[c])
            /\ PowerFits(bot[c] - N_words, c - oc)
            /\ Landing(c) >= oc /\ Landing(c) < c
            /\ Landing(c) > oc => bot[Landing(c)] <= bot[c]
            /\ ChainEnd(c, oc) = oc

\* C33 as stated: after any sequence of alloc_block_work calls the skip chain
\* of every block spanning more than one card is well formed.
C33_SkipChainAnyCall ==
  \A o \in objs : o.rec => SkipChainWellFormed(o)

\* C33 witness: in a build without ASSERT, alloc_block_work has recorded a
\* block of several cards that starts past the threshold: the card of the
\* threshold holds the wrapped difference, which is neither an offset nor a
\* back skip, and the block's chain is not well formed
C33_Witness ==
  /\ ~assert_build /\ ~hr_aborted /\ ~bot_pre_ok
  /\ \E o \in objs :
       /\ o.rec /\ LastCard(o) > OffsetCard(o) /\ ~SkipChainWellFormed(o)
       /\ \E c \in RegionCardSet :
            c < OffsetCard(o) /\ bot[c] > N_words + N_powers - 1

\* ------------------------------------------------------------------------
\* C34
\* ------------------------------------------------------------------------
\* both look-ups of addr yield top
YieldsTop(addr) ==
  /\ block_start_const(bot, addr) = [q |-> top, def |-> TRUE]
  /\ LET r == block_start(bot, addr) IN r.def /\ r.q = top
\* the addresses looked up in [p, end): those of verify() and every
\* LookupStride-th word
LookupStride == 7
AboveTop(p) ==
  {a \in p..(end - 1) : a \in VerifyAddrSet(p) \/ (a - p) % LookupStride = 0}
VerifyPassed == last.op = "verify" => last.def /\ last.res = last.top0

\* C34 as stated: after any sequence of allocations and clears, a look-up of
\* any address in [top, end) yields top.
C34_LookupAboveTopAnyAlloc ==
  /\ \A addr \in AboveTop(top) : YieldsTop(addr)
  /\ VerifyPassed

\* C34 witness: in a build without ASSERT, after an allocation recorded with
\* blk_start > threshold, verify() on the region with top < end has failed at
\* a look-up above top, and a look-up of an address in [top, end) does not
\* yield top
C34_Witness ==
  /\ ~assert_build /\ ~hr_aborted /\ ~bot_pre_ok
  /\ top < end /\ last.op = "verify" /\ ~(last.def /\ last.res = last.top0)
  /\ \E addr \in AboveTop(top) : ~YieldsTop(addr)

\* ------------------------------------------------------------------------
\* C35
\* ------------------------------------------------------------------------
LooksUpTo(addr, start) ==
  LET r == block_start(bot, addr) IN r.def /\ r.q = start

\* the end of what set_for_starts_humongous(obj_top, fill_size) recorded
HumongousEnd == last.min + last.desired

\* C35: after set_for_starts_humongous(obj_top, fill_size), whatever the
\* table held before, the table has been reset and holds the block
\* [bottom, obj_top) and, only when fill_size > 0, the block
\* [obj_top, obj_top + fill_size): the bottom entry is 0 and the threshold
\* stands at the first card boundary at or after obj_top + fill_size; and once
\* the object and the filler are the region's blocks, block_start yields
\* bottom for every address of the first and obj_top for every address of the
\* second.
C35_SetForStartsHumongous ==
  /\ last.op \in {"set_starts_humongous", "humongous_obj_allocate"} =>
       /\ bot_pre_ok
       /\ bot[index_for(bottom)] = 0
       /\ bot_threshold = address_for_index(index_for(HumongousEnd - 1)) + N_words
       /\ bot_index = index_for(HumongousEnd - 1) + 1
       /\ hr[hrm_index].type = "StartsHumongous" /\ hr[hrm_index].hsr = hrm_index
  /\ last.op = "humongous_obj_allocate" =>
       /\ \A addr \in bottom..(last.min - 1) : LooksUpTo(addr, bottom)
       /\ \A addr \in last.min..(HumongousEnd - 1) : LooksUpTo(addr, last.min)

\* C35 witness: the call was made on an empty region, cleared after a block
\* of many cards, whose table still holds the entries of that block above
\* the cards the call wrote, for an object of more than 64 cards with a
\* filler after it, which are now the region's blocks
C35_Witness ==
  /\ last.op = "humongous_obj_allocate" /\ last.top0 = bottom /\ hr_pre_ok
  /\ last.min > bottom + 64 * N_words /\ last.desired > 0
  /\ \E c \in RegionCardSet : c > index_for(top) /\ bot[c] > N_words

\* ------------------------------------------------------------------------
\* C36
\* ------------------------------------------------------------------------
LiveHumongous == {r \in CRegs : c_reg[r].type = "StartsHumongous" /\ HBottom(r) \in CBefore.bm}
SamePayload(a, b) == a.size = b.size /\ a.ref = b.ref /\ a.body = b.body /\ a.ok = b.ok

\* C36: compaction never moves a humongous object: no humongous region is
\* passed to compact_region, and a StartsHumongous region whose object at
\* bottom is marked keeps its type and top and its object, at the same
\* address with the same size and payload; until the reset closure reaches
\* the region the header and the mark bit are as before, afterwards the mark
\* bit is clear and the header is the re-initialised one
C36_HumongousNotMoved ==
  /\ \A r \in c_run.passed : ~is_humongous_type(c_reg[r].type) /\ c_reg[r].phase = 3
  /\ \A r \in CRegs : is_humongous_type(c_reg[r].type) => c_reg[r].phase = 0
  /\ \A r \in LiveHumongous :
       LET obj == HBottom(r) IN
       /\ c_reg[r].top = CBefore.top[r]
       /\ obj \in DOMAIN c_mem
       /\ SamePayload(c_mem[obj], CBefore.mem[obj])
       /\ \A x \in DOMAIN c_mem : x > obj => x >= obj + c_mem[obj].size
       /\ IF r \in c_run.reset
            THEN ~is_marked(c_bitmap, obj) /\ c_mem[obj].mark = NULLW
            ELSE is_marked(c_bitmap, obj) /\ c_mem[obj] = CBefore.mem[obj]

\* C36 witness: the task is over; the humongous object's header was not the
\* prototype, the closure has reset it, and the compaction of another region
\* has moved a live object down over a dead one
C36_Witness ==
  /\ \A w \in CGang : c_run.pc[w] = "done"
  /\ \E r \in c_run.passed : r \in c_run.serial
  /\ \E r \in c_run.passed : r \notin c_run.serial
  /\ \E r \in LiveHumongous : r \in c_run.reset /\ CBefore.mem[HBottom(r)].mark # NULLW
  /\ \E r \in c_run.passed : c_reg[r].top < CBefore.top[r] /\ c_reg[r].top > HBottom(r)

\* ------------------------------------------------------------------------
\* C37, C38
\* ------------------------------------------------------------------------
RequestInForce == vm_pc = "synced"
FrozenStep ==
  RequestInForce =>
    /\ sts_nthreads' = sts_nthreads
    /\ sts_stopped' = sts_stopped
    /\ \A t \in Workers : sts_pc'[t] = "in" => sts_pc[t] = "in"

\* C37: from the return of synchronize() until desynchronize() the set is
\* frozen: no step lets a thread complete join() or return from yield(), and
\* none changes _nthreads or _nthreads_stopped; and in every reachable state
\* _nthreads_stopped <= _nthreads
C37_FrozenWhileSuspended ==
  /\ [](sts_stopped <= sts_nthreads)
  /\ [][FrozenStep]_vars

\* C37 witness: a request is in force while one thread waits in join(), and
\* two threads are held in yield()
C37_Witness ==
  /\ RequestInForce
  /\ \E t \in Workers : sts_pc[t] = "join_wait"
  /\ sts_stopped = 2 /\ sts_nthreads = 2

\* a thread woken by desynchronize() that has not yet re-acquired STS_lock
\* when the next request is already set
WokenUnderRequest(t) == sts_pc[t] = "yield_woken" /\ sts_suspend_all
StaysInYield ==
  \A t \in Workers :
    WokenUnderRequest(t) => (InYield(t))' /\ (sts_stopped' >= sts_stopped)
BackToBackSafe ==
  /\ sts_stopped = Cardinality({t \in Workers : InYield(t)})
  /\ (\E t \in Workers : WokenUnderRequest(t)) =>
       /\ vm_pc = "synced" => (sts_stopped = sts_nthreads
                                /\ \A t \in Workers : InSet(t) => InYield(t))
       /\ vm_pc = "sem_wait" => sts_sem = sts_signals /\ sts_sem <= 1
       /\ vm_pc # "sem_wait" => sts_sem = 0
       /\ vm_pc = "synced" => sts_signals = (IF sts_waited THEN 1 ELSE 0)

\* C38: when synchronize() is called again before a thread woken from
\* yield() has re-acquired STS_lock, the thread stays in yield() and stays
\* counted as stopped; the request returns only with every thread of the set
\* stopped, after exactly one signal if it waited and none if it did not, the
\* semaphore keeping no count; and under fair scheduling the request returns
C38_BackToBackRequests ==
  /\ []BackToBackSafe
  /\ [][StaysInYield]_vars
  /\ (vm_pc = "sync_call" /\ \E t \in Workers : sts_pc[t] = "yield_woken")
       ~> (vm_pc = "synced")

\* C38 witness: the second request had to wait, was signalled once and has
\* returned while a thread woken after the first still has not run
C38_Witness ==
  /\ vm_pc = "synced" /\ sts_waited /\ sts_signals = 1 /\ sts_sem = 0
  /\ \E t \in Workers : WokenUnderRequest(t)
  /\ \E t \in Workers : sts_pc[t] = "yield_wait"

\* ------------------------------------------------------------------------
\* C39
\* ------------------------------------------------------------------------
InParAllocateImpl(t) == th[t].pc \in {"pai_read", "pai_cas"}
\* a step in which thread t goes round the loop of par_allocate_impl again
Retries(t) == th[t].pc = "pai_cas" /\ th'[t].pc = "pai_read"
RetryStep ==
  /\ top' >= top /\ top' <= end
  /\ \A t \in Allocators :
       /\ Retries(t) => top > th[t].obj /\ top' = top
       /\ (th[t].pc = "pai_cas" /\ th'[t].pc = "idle") =>
            (top = th[t].obj /\ top' = th[t].new_top /\ th'[t].res = th[t].obj)
       /\ (th[t].pc = "pai_read" /\ th'[t].pc = "idle") =>
            (th'[t].res = NULLW /\ top' = top)

\* C39: par_allocate_impl goes round its loop again only after a failed
\* compare-and-swap, which means that top has moved past the value the thread
\* read; top never decreases and never passes end; a call returns a range only
\* from a successful exchange and NULL only from the size test; and with every
\* thread inside the function scheduled fairly, every call returns
C39_LockFreeTermination ==
  /\ [][RetryStep]_vars
  /\ \A t \in Allocators : InParAllocateImpl(t) ~> (th[t].pc = "idle")

\* C39 witness: a thread is going round again after losing the exchange to
\* another thread, whose call has returned the range the first had read
C39_Witness ==
  \E t, u \in Allocators :
    /\ t # u
    /\ th[t].pc = "pai_read" /\ th[t].obj # NULLW /\ top > th[t].obj
    /\ th[u].pc = "idle" /\ th[u].res = th[t].obj

\* ------------------------------------------------------------------------
\* C40
\* ------------------------------------------------------------------------
MarkingBoundaries(rec, r) ==
  /\ HBottom(r) <= rec.prev_tams /\ rec.prev_tams <= rec.top
  /\ HBottom(r) <= rec.next_tams /\ rec.next_tams <= rec.top
  /\ rec.top <= HEnd(r)
MarkingLast == hr[hr_last.r]

\* C40: after any sequence of allocate, note_start_of_marking,
\* note_end_of_marking, note_self_forwarding_removal_start and _end,
\* complete_compaction and hr_clear, every region has
\* bottom <= prev TAMS <= top and bottom <= next TAMS <= top;
\* note_start_of_marking leaves next TAMS at the top and next marked bytes 0;
\* note_end_of_marking leaves in the prev fields what the next fields held,
\* next TAMS at bottom and next marked bytes 0
C40_MarkingBoundaries ==
  /\ \A r \in HRegions : MarkingBoundaries(hr[r], r)
  /\ hr_last.op = "note_start_of_marking" =>
       /\ MarkingLast.next_tams = hr_last.before.top /\ MarkingLast.top = hr_last.before.top
       /\ MarkingLast.next_marked = 0
       /\ MarkingLast.prev_tams = hr_last.before.prev_tams
       /\ MarkingLast.prev_marked = hr_last.before.prev_marked
  /\ hr_last.op = "note_end_of_marking" =>
       /\ MarkingLast.prev_tams = hr_last.before.next_tams
       /\ MarkingLast.prev_marked = hr_last.before.next_marked
       /\ MarkingLast.next_tams = HBottom(hr_last.r)
       /\ MarkingLast.next_marked = 0

\* C40 witness: a marking cycle has ended in a region that was allocated in
\* after the cycle started: prev TAMS lies strictly between bottom and top and
\* the prev marked bytes are those the cycle counted
C40_Witness ==
  /\ hr_last.op = "note_end_of_marking"
  /\ MarkingLast.prev_tams > HBottom(hr_last.r) /\ MarkingLast.prev_tams < MarkingLast.top
  /\ MarkingLast.prev_marked > 0

====
